---- MODULE Spec2Model ----
(***************************************************************************)
(* A model of the tree IR (src/src/tree.c), of the simplification pass     *)
(* (src/src/simp.c) and of the locations and diagnostics (src/src/diag.c)  *)
(* of the nvc VHDL front-end.                                              *)
(*                                                                         *)
(* The tree store is a heap `trees': node identity is the index of the     *)
(* node's record, NULL is 0.  all_trees is the registry of tree_new; a     *)
(* node that tree_gc freed is no longer in it.  Types are records of the   *)
(* externally managed type store `types'.                                  *)
(***************************************************************************)
EXTENDS Integers, Sequences, FiniteSets, TLC

\* ------------------------------------------------------------------ bounds

\* Operations (traversals, contexts, copies, collections ...) per behaviour.
MaxOps == 4

\* Nodes the heap may hold; an allocating operation needs room for its result.
MaxNodes == 24

\* Operations per behaviour of the rewriting specification.
MaxRewriteOps == 2

\* Ports of a called subprogram, and statements in a branch of an if.
MaxPorts == 2

MaxStmts == 2

\* Arms of a case statement.
MaxArms == 3

\* Conditions of a concurrent signal assignment.
MaxConds == 2

\* Processes of a unit before its block.
MaxUnitProcs == 2

\* Characters of a file name, files in the registry, locations written
\* through one context.
MaxNameLen == 3

MaxFiles == 2

MaxLocs == 2

\* Diagnostics made, and the largest error limit.
MaxDiags == 2

MaxLimit == 2
\* Hints, and entries of the trace, of a diagnostic.
MaxHints == 3
MaxTrace == 2

\* Statements in the body of a procedure, and the calls of simp_build_wait
\* the stack of the process holds.
MaxBody == 2

MaxDepth == 4

\* Length of the run of empty write contexts (tree_write_begin /
\* tree_write_end) that EmptyWriteContexts performs in one step.
GenJump == 65534

\* ------------------------------------------------------- program constants

NULL == 0

\* struct tree.generation is an unsigned short: values are kept modulo 2^16.
GEN_MOD == 65536

\* tree_new: t->index = UINT32_MAX, written here as -1.
INDEX_NONE == -1

\* ------------------------------------------------------------ small helpers

Range(s) == {s[i] : i \in 1..Len(s)}

RECURSIVE Concat(_)
Concat(ss) == IF ss = <<>> THEN <<>> ELSE Head(ss) \o Concat(Tail(ss))

RECURSIVE SelectNonNull(_)
SelectNonNull(s) ==
    IF s = <<>> THEN <<>>
    ELSE IF Head(s) = NULL THEN SelectNonNull(Tail(s))
    ELSE <<Head(s)>> \o SelectNonNull(Tail(s))

\* ---------------------------------------------------------------- the state

VARIABLES
    trees,            \* heap: node id -> struct tree
    types,            \* type store: type id -> type record
    all_trees,        \* registry of allocated nodes (all_trees[0 .. n_trees_alloc-1])
    next_generation,  \* static unsigned next_generation
    wctx,             \* the open tree_wr_ctx, if any
    rctx,             \* the open tree_rd_ctx, if any
    simp,             \* the node simp_tree is given, the pass and the result
    file,             \* the byte stream the write context writes, as tokens
    held,             \* node handles the caller holds (roots of its operations)
    last,             \* what the last operation was given and what it returned
    nops,             \* operations performed so far
    diag,             \* diag.c: file registry, location contexts, error counter
    crashed           \* the process aborted (assert, abort(), stack exhaustion)

vars == <<trees, types, all_trees, next_generation, wctx, rctx, simp, file,
          held, last, nops, diag, crashed>>

n_trees_alloc == Len(all_trees)

\* ------------------------------------------------- kinds and slot legality

IS_TOP_LEVEL(k) == k \in {"T_ARCH", "T_ENTITY", "T_PACKAGE", "T_ELAB", "T_PBODY"}

IS_DECL(k) == k \in {"T_PORT_DECL", "T_SIGNAL_DECL", "T_VAR_DECL", "T_TYPE_DECL",
                     "T_CONST_DECL", "T_FUNC_DECL", "T_FBODY", "T_ALIAS"}

IS_EXPR(k) == k \in {"T_FCALL", "T_LITERAL", "T_REF", "T_QUALIFIED", "T_AGGREGATE",
                     "T_ATTR_REF", "T_ARRAY_REF", "T_ARRAY_SLICE"}

IS_STMT(k) == k \in {"T_PROCESS", "T_WAIT", "T_VAR_ASSIGN", "T_SIGNAL_ASSIGN",
                     "T_ASSERT", "T_INSTANCE", "T_IF", "T_NULL", "T_RETURN",
                     "T_CASSIGN", "T_WHILE", "T_FOR"}

HAS_IDENT(k) ==
    \/ k \in {"T_ENTITY", "T_PORT_DECL", "T_FCALL", "T_ARCH", "T_SIGNAL_DECL"}
    \/ IS_STMT(k)
    \/ k \in {"T_VAR_DECL", "T_REF", "T_TYPE_DECL", "T_PACKAGE", "T_QUALIFIED",
              "T_ENUM_LIT", "T_CONST_DECL", "T_FUNC_DECL", "T_ELAB", "T_ATTR_REF",
              "T_INSTANCE", "T_PBODY", "T_FBODY", "T_CASSIGN", "T_WHILE", "T_ALIAS"}

HAS_IDENT2(k) == k \in {"T_ARCH", "T_ATTR_REF", "T_INSTANCE", "T_FOR"}

HAS_PORTS(k) == k \in {"T_ENTITY", "T_FUNC_DECL", "T_FBODY"}

HAS_GENERICS(k) == k = "T_ENTITY"

HAS_TYPE(k) ==
    \/ k \in {"T_PORT_DECL", "T_SIGNAL_DECL", "T_VAR_DECL", "T_TYPE_DECL"}
    \/ IS_EXPR(k)
    \/ k \in {"T_ENUM_LIT", "T_CONST_DECL", "T_FUNC_DECL", "T_FBODY", "T_ALIAS"}

HAS_PARAMS(k) == k \in {"T_FCALL", "T_ATTR_REF", "T_ARRAY_REF", "T_INSTANCE"}

HAS_DECLS(k) == k \in {"T_ARCH", "T_PROCESS", "T_PACKAGE", "T_ELAB", "T_PBODY", "T_FOR"}

HAS_TRIGGERS(k) == k \in {"T_WAIT", "T_PROCESS"}

HAS_STMTS(k) == k \in {"T_ARCH", "T_PROCESS", "T_ELAB", "T_IF", "T_FBODY",
                       "T_WHILE", "T_FOR"}

HAS_DELAY(k) == k \in {"T_WAIT", "T_WAVEFORM"}

HAS_TARGET(k) == k \in {"T_VAR_ASSIGN", "T_SIGNAL_ASSIGN", "T_CASSIGN"}

HAS_VALUE(k) ==
    \/ IS_DECL(k)
    \/ k \in {"T_VAR_ASSIGN", "T_WAVEFORM", "T_QUALIFIED", "T_CONST_DECL", "T_ASSERT",
              "T_ATTR_REF", "T_ARRAY_REF", "T_ARRAY_SLICE", "T_IF", "T_RETURN",
              "T_WHILE", "T_ALIAS"}

HAS_REF(k) == k \in {"T_REF", "T_FCALL", "T_ATTR_REF", "T_ARRAY_REF",
                     "T_ARRAY_SLICE", "T_INSTANCE"}

HAS_WAVEFORMS(k) == k \in {"T_SIGNAL_ASSIGN", "T_CASSIGN"}

\* The kinds the model instantiates (T_ARCH, T_PBODY, T_SIGNAL_DECL,
\* T_VAR_DECL, T_TYPE_DECL, T_FBODY, T_PROCESS, T_IF, T_VAR_ASSIGN, T_RETURN,
\* T_REF, T_FCALL, T_LITERAL, T_AGGREGATE) have no delay, range,
\* severity/message or generic map, and their params are left empty, so
\* these slots carry no node in the model.

\* ------------------------------------------------------------- struct tree

NoLoc == [file |-> "", first_line |-> 0, first_column |-> 0,
          last_line |-> 0, last_column |-> 0]

Loc(f, l, c) == [file |-> f, first_line |-> l, first_column |-> c,
                 last_line |-> l, last_column |-> c + 1]

\* tree_new: memset to zero, kind set, index UINT32_MAX.
NewTree(k) ==
    [kind |-> k, loc |-> NoLoc, ident |-> "", ident2 |-> "",
     ports |-> <<>>, generics |-> <<>>, decls |-> <<>>, triggers |-> <<>>,
     stmts |-> <<>>, waves |-> <<>>, elses |-> <<>>, drivers |-> <<>>,
     value |-> NULL, target |-> NULL, ref |-> NULL, type |-> NULL,
     literal |-> 0, assocs |-> <<>>, attrs |-> <<>>,
     generation |-> 0, index |-> INDEX_NONE]

\* assoc_t of an aggregate and struct attr.
Assoc(k, pos, name, value) == [kind |-> k, pos |-> pos, name |-> name, value |-> value]

AttrInt(name, i) == [kind |-> "A_INT", name |-> name, ival |-> i, tval |-> NULL]

AttrTree(name, t) == [kind |-> "A_TREE", name |-> name, ival |-> 0, tval |-> t]

\* A type record of the external type store: its kind and the range of each
\* dimension (trees).
Type(k, dims) == [kind |-> k, dims |-> dims]

Live(t) == t \in Range(all_trees)

\* ------------------------------------------------------- the initial designs

\* An architecture: signal s of an integer type, and a process that drives
\* it with two assignments sharing their target and their value.
\*   1 arch a { decls <<2>>, stmts <<3>> }     2 signal s { value 8, drivers <<3>> }
\*   3 process p { stmts <<4, 5>> }            4, 5 s := 1 (target 6, value 7)
\*   6 ref s -> 2     7 literal 1     8 literal 0     9, 10 bounds of type 1
ArchTrees ==
    << [NewTree("T_ARCH") EXCEPT !.ident = "a", !.ident2 = "e", !.loc = Loc("a.vhd", 1, 0),
                                 !.decls = <<2>>, !.stmts = <<3>>],
       [NewTree("T_SIGNAL_DECL") EXCEPT !.ident = "s", !.loc = Loc("a.vhd", 2, 3),
                                 !.type = 1, !.value = 8, !.drivers = <<3>>],
       [NewTree("T_PROCESS") EXCEPT !.ident = "p", !.loc = Loc("a.vhd", 3, 3),
                                 !.stmts = <<4, 5>>],
       [NewTree("T_VAR_ASSIGN") EXCEPT !.ident = "l1", !.target = 6, !.value = 7],
       [NewTree("T_VAR_ASSIGN") EXCEPT !.ident = "l2", !.target = 6, !.value = 7],
       [NewTree("T_REF") EXCEPT !.ident = "s", !.ref = 2, !.type = 1],
       [NewTree("T_LITERAL") EXCEPT !.literal = 1, !.type = 1],
       [NewTree("T_LITERAL") EXCEPT !.literal = 0, !.type = 1],
       [NewTree("T_LITERAL") EXCEPT !.literal = 0],
       [NewTree("T_LITERAL") EXCEPT !.literal = 7] >>

ArchTypes == << Type("T_INTEGER", << [left |-> 9, right |-> 10] >>) >>

\* A package body: an integer type declaration, a recursive function whose
\* body returns an aggregate or the result of calling itself, and a variable
\* that only a tree attribute of the function refers to.
\*   1 pbody pk { decls <<2, 3>> }     2 type t (type 1, bounds 9 and 10)
\*   3 fbody f { stmts <<4>>, attr x -> 12 }
\*   4 if 5 then 6 else 7      5 fcall f -> 3     6 return 8     7 return 11
\*   8 aggregate (11, others => 11)    11 literal 4     12 variable v
PbodyTrees ==
    << [NewTree("T_PBODY") EXCEPT !.ident = "pk", !.loc = Loc("p.vhd", 1, 0),
                                 !.decls = <<2, 3>>],
       [NewTree("T_TYPE_DECL") EXCEPT !.ident = "t", !.type = 1],
       [NewTree("T_FBODY") EXCEPT !.ident = "f", !.type = 2, !.stmts = <<4>>,
                                 !.attrs = <<AttrInt("n", 3), AttrTree("x", 12)>>],
       [NewTree("T_IF") EXCEPT !.ident = "i", !.value = 5, !.stmts = <<6>>,
                                 !.elses = <<7>>],
       [NewTree("T_FCALL") EXCEPT !.ident = "f", !.ref = 3, !.type = 2],
       [NewTree("T_RETURN") EXCEPT !.ident = "r1", !.value = 8],
       [NewTree("T_RETURN") EXCEPT !.ident = "r2", !.value = 11],
       [NewTree("T_AGGREGATE") EXCEPT !.type = 2,
                                 !.assocs = << Assoc("A_POS", 0, NULL, 11),
                                               Assoc("A_OTHERS", 0, NULL, 11) >>],
       [NewTree("T_LITERAL") EXCEPT !.literal = 0],
       [NewTree("T_LITERAL") EXCEPT !.literal = 7],
       [NewTree("T_LITERAL") EXCEPT !.literal = 4, !.type = 1],
       [NewTree("T_VAR_DECL") EXCEPT !.ident = "v", !.type = 1] >>

PbodyTypes == << Type("T_INTEGER", << [left |-> 9, right |-> 10] >>),
                 Type("T_ENUM", <<>>) >>

\* The designs a behaviour may start from, with the handles the caller holds.
Designs ==
    { [trees |-> ArchTrees, types |-> ArchTypes, held |-> {1, 3}],
      [trees |-> PbodyTrees, types |-> PbodyTypes, held |-> {1, 4}] }

\* ---------------------------------------------------------------- traversal

\* tree_visit_type: the trees a type holds, in the order they are walked
\* (the bounds of each dimension of an integer, physical, subtype or
\* constrained array type).
TypeTrees(ty, type) ==
    IF type = NULL THEN <<>>
    ELSE IF ty[type].kind \in {"T_SUBTYPE", "T_INTEGER", "T_PHYSICAL", "T_CARRAY"}
    THEN Concat([i \in 1..Len(ty[type].dims) |->
                    <<ty[type].dims[i].left, ty[type].dims[i].right>>])
    ELSE <<>>

Counted(s) == [i \in 1..Len(s) |-> [t |-> s[i], cnt |-> TRUE]]

Uncounted(s) == [i \in 1..Len(s) |-> [t |-> s[i], cnt |-> FALSE]]

\* The trees an aggregate's associations hold: the name of a named one,
\* then the value.
AssocTrees(as) ==
    Concat([i \in 1..Len(as) |->
              (IF as[i].kind = "A_NAMED" THEN <<as[i].name>> ELSE <<>>) \o <<as[i].value>>])

AttrTrees(at) ==
    Concat([i \in 1..Len(at) |-> IF at[i].kind = "A_TREE" THEN <<at[i].tval>> ELSE <<>>])

\* The recursive calls of tree_visit_aux on node n, in order; cnt tells
\* whether the call's result is added to the count n.
VisitOrder(n, ty, deep) ==
    LET k == n.kind IN
       (IF HAS_PORTS(k) THEN Counted(n.ports) ELSE <<>>)
    \o (IF HAS_GENERICS(k) THEN Counted(n.generics) ELSE <<>>)
    \o (IF HAS_DECLS(k) THEN Counted(n.decls) ELSE <<>>)
    \o (IF HAS_TRIGGERS(k) THEN Counted(n.triggers) ELSE <<>>)
    \o (IF HAS_STMTS(k) THEN Counted(n.stmts) ELSE <<>>)
    \o (IF HAS_WAVEFORMS(k) THEN Counted(n.waves) ELSE <<>>)
    \o (IF HAS_VALUE(k) THEN Counted(<<n.value>>) ELSE <<>>)
    \o (IF HAS_TARGET(k) THEN Counted(<<n.target>>) ELSE <<>>)
    \o (IF HAS_REF(k) /\ deep THEN Counted(<<n.ref>>) ELSE <<>>)
    \o (IF HAS_TYPE(k) /\ deep THEN Counted(TypeTrees(ty, n.type)) ELSE <<>>)
    \o (IF k = "T_AGGREGATE" THEN Uncounted(AssocTrees(n.assocs))
        ELSE IF k = "T_SIGNAL_DECL" /\ deep THEN Counted(n.drivers)
        ELSE IF k = "T_IF" THEN Counted(n.elses)
        ELSE <<>>)
    \o (IF deep THEN Uncounted(AttrTrees(n.attrs)) ELSE <<>>)

\* A traversal's running state: the heap, the count, the nodes fn was applied
\* to (in order), and whether the recursion came back to a node it is still
\* inside of without taking it for visited, which never ends.
VisitState(h) == [h |-> h, n |-> 0, calls |-> <<>>, overflow |-> FALSE]

RECURSIVE tree_visit_aux(_, _, _, _, _, _, _)
RECURSIVE tree_visit_a(_, _, _, _, _, _, _)

tree_visit_a(st, ty, ch, kind, generation, deep, path) ==
    IF ch = <<>> \/ st.overflow THEN st
    ELSE LET s1 == tree_visit_aux(st, ty, Head(ch).t, kind, generation, deep, path)
             s2 == IF Head(ch).cnt THEN s1 ELSE [s1 EXCEPT !.n = st.n]
         IN tree_visit_a(s2, ty, Tail(ch), kind, generation, deep, path)

tree_visit_aux(st, ty, t, kind, generation, deep, path) ==
    IF t = NULL \/ st.overflow THEN st
    ELSE IF st.h[t].generation = generation THEN st
    ELSE IF t \in path THEN [st EXCEPT !.overflow = TRUE]
    ELSE LET s1 == [st EXCEPT !.h[t].generation = generation % GEN_MOD, !.n = 0]
             s2 == tree_visit_a(s1, ty, VisitOrder(st.h[t], ty, deep), kind,
                                generation, deep, path \cup {t})
             hit == st.h[t].kind = kind \/ kind = "T_LAST_TREE_KIND"
         IN IF s2.overflow THEN s2
            ELSE [s2 EXCEPT !.n = st.n + s2.n + (IF hit THEN 1 ELSE 0),
                            !.calls = IF hit THEN Append(@, t) ELSE @]

\* The nodes reachable from the set `from' along the edges a traversal
\* follows (deep: also ref, types, drivers and tree attributes).
RECURSIVE Reach(_, _, _, _)
Reach(h, ty, from, deep) ==
    LET next == from \cup
                UNION { {c.t : c \in Range(VisitOrder(h[t], ty, deep))} \ {NULL} : t \in from }
    IN IF next = from THEN from ELSE Reach(h, ty, next, deep)

\* The subgraph of t: the nodes reachable from t through child slots.
Subgraph(h, ty, t) == Reach(h, ty, {t}, FALSE)

\* Every node a traversal from t would touch is allocated.
Sound(t) == Live(t) /\ Reach(trees, types, {t}, TRUE) \subseteq Range(all_trees)

\* ------------------------------------------------------- garbage collection

\* The mark loop of tree_gc over the registry: a deep traversal from every
\* top-level unit, each with the next generation.
RECURSIVE gc_mark(_, _, _, _)
gc_mark(st, ty, reg, i) ==
    IF i > Len(reg) \/ st.overflow THEN st
    ELSE IF IS_TOP_LEVEL(st.h[reg[i]].kind)
    THEN LET v == tree_visit_aux(VisitState(st.h), ty, reg[i], "T_LAST_TREE_KIND",
                                 st.gen, TRUE, {})
         IN gc_mark([h |-> v.h, gen |-> st.gen + 1, overflow |-> v.overflow],
                    ty, reg, i + 1)
    ELSE gc_mark(st, ty, reg, i + 1)

\* The sweep test: the node's generation is below the base generation.
gc_sweeps(node, base_gen) == node.generation < base_gen

\* tree_gc on heap h, registry reg: the marked heap, the compacted registry,
\* the freed nodes and the generation counter afterwards.
tree_gc_result(h, ty, reg, gen) ==
    LET m     == gc_mark([h |-> h, gen |-> gen, overflow |-> FALSE], ty, reg, 1)
        freed == {t \in Range(reg) : gc_sweeps(m.h[t], gen)}
    IN [h |-> m.h, gen |-> m.gen, overflow |-> m.overflow, freed |-> freed,
        reg |-> SelectSeq(reg, LAMBDA t : t \notin freed)]

\* ------------------------------------------------------------ serialisation

\* The stream as tokens: write_s (tag "s"; the kind of a node is written by
\* name), write_u, write_i64, ident_write and type_write.
TokS(n) == [tag |-> "s", n |-> n, s |-> ""]

TokKind(k) == [tag |-> "s", n |-> 0, s |-> k]

TokU(n) == [tag |-> "u", n |-> n, s |-> ""]

TokI(n) == [tag |-> "i", n |-> n, s |-> ""]

TokIdent(i) == [tag |-> "ident", n |-> 0, s |-> i]

\* type_write / type_read belong to the type store: a type is written as
\* its handle and read back as the same type.
TokType(ty) == [tag |-> "type", n |-> ty, s |-> ""]

NULL_MARKER == 65535

BACKREF_MARKER == 65534

\* One step of writing a node: a token, or a subtree.
PTok(tok) == [tree |-> FALSE, tok |-> tok, t |-> NULL]

PTree(t) == [tree |-> TRUE, tok |-> TokS(0), t |-> t]

PTrees(s) == [i \in 1..Len(s) |-> PTree(s[i])]

\* write_a
write_a(a) == <<PTok(TokU(Len(a)))>> \o PTrees(a)

\* write_loc: the four line/column fields; the file name is not written.
write_loc(l) ==
    << PTok(TokS(l.first_line)), PTok(TokS(l.first_column)),
       PTok(TokS(l.last_line)), PTok(TokS(l.last_column)) >>

\* The associations of an aggregate as tree_write emits them.
write_assocs(as) ==
    <<PTok(TokS(Len(as)))>> \o
    Concat([i \in 1..Len(as) |->
              <<PTok(TokIdent(as[i].kind)), PTree(as[i].value)>> \o
              (IF as[i].kind = "A_POS" THEN <<PTok(TokS(as[i].pos))>>
               ELSE IF as[i].kind = "A_NAMED" THEN <<PTree(as[i].name)>>
               ELSE <<>>)])

write_attrs(at) ==
    <<PTok(TokS(Len(at)))>> \o
    Concat([i \in 1..Len(at) |->
              <<PTok(TokIdent(at[i].kind)), PTok(TokIdent(at[i].name))>> \o
              (IF at[i].kind = "A_INT" THEN <<PTok(TokI(at[i].ival))>>
               ELSE <<PTree(at[i].tval)>>)])

\* What tree_write emits for a node it has not yet written, in order.
WriteParts(n) ==
    LET k == n.kind IN
       <<PTok(TokKind(k))>>
    \o write_loc(n.loc)
    \o (IF HAS_IDENT(k) THEN <<PTok(TokIdent(n.ident))>> ELSE <<>>)
    \o (IF HAS_IDENT2(k) THEN <<PTok(TokIdent(n.ident2))>> ELSE <<>>)
    \o (IF HAS_PORTS(k) THEN write_a(n.ports) ELSE <<>>)
    \o (IF HAS_GENERICS(k) THEN write_a(n.generics) ELSE <<>>)
    \o (IF HAS_DECLS(k) THEN write_a(n.decls) ELSE <<>>)
    \o (IF HAS_TRIGGERS(k) THEN write_a(n.triggers) ELSE <<>>)
    \o (IF HAS_STMTS(k) THEN write_a(n.stmts) ELSE <<>>)
    \o (IF HAS_WAVEFORMS(k) THEN write_a(n.waves) ELSE <<>>)
    \o (IF HAS_TYPE(k) THEN <<PTok(TokType(n.type))>> ELSE <<>>)
    \o (IF HAS_VALUE(k) THEN <<PTree(n.value)>> ELSE <<>>)
    \o (IF HAS_TARGET(k) THEN <<PTree(n.target)>> ELSE <<>>)
    \o (IF HAS_REF(k) THEN <<PTree(n.ref)>> ELSE <<>>)
    \o (IF k \in {"T_ARCH", "T_ENTITY", "T_PACKAGE", "T_PBODY"}
        THEN <<PTok(TokS(0))>> ELSE <<>>)
    \o (IF HAS_PARAMS(k) THEN <<PTok(TokU(0))>> ELSE <<>>)
    \o (IF k = "T_LITERAL" THEN <<PTok(TokIdent("L_INT")), PTok(TokI(n.literal))>>
        ELSE IF k = "T_AGGREGATE" THEN write_assocs(n.assocs)
        ELSE IF k = "T_IF" THEN write_a(n.elses)
        ELSE <<>>)
    \o write_attrs(n.attrs)

\* tree_write(t, ctx).  st = [h, n_trees, out, overflow]; generation is
\* ctx->generation.
RECURSIVE tree_write_aux(_, _, _, _)
RECURSIVE tree_write_parts(_, _, _, _)

tree_write_parts(st, parts, generation, path) ==
    IF parts = <<>> \/ st.overflow THEN st
    ELSE LET p  == Head(parts)
             s1 == IF p.tree THEN tree_write_aux(st, p.t, generation, path)
                   ELSE [st EXCEPT !.out = Append(@, p.tok)]
         IN tree_write_parts(s1, Tail(parts), generation, path)

tree_write_aux(st, t, generation, path) ==
    IF st.overflow THEN st
    ELSE IF t = NULL THEN [st EXCEPT !.out = Append(@, TokS(NULL_MARKER))]
    ELSE IF st.h[t].generation = generation
    THEN [st EXCEPT !.out = @ \o <<TokS(BACKREF_MARKER), TokU(st.h[t].index)>>]
    ELSE IF t \in path THEN [st EXCEPT !.overflow = TRUE]
    ELSE LET s1 == [st EXCEPT !.h[t].generation = generation % GEN_MOD,
                              !.h[t].index = st.n_trees,
                              !.n_trees = @ + 1]
         IN tree_write_parts(s1, WriteParts(st.h[t]), generation, path \cup {t})

\* tree_read(ctx).  st = [h, reg, pos, store, res, abort]: the heap and the
\* registry (tree_new), the read position, ctx->store, the tree read last.
ReadState(h, reg) == [h |-> h, reg |-> reg, pos |-> 1, store |-> <<>>, res |-> NULL,
                      abort |-> FALSE]

\* read_loc: the file name is "none".
read_loc(toks, pos) ==
    [file |-> "none", first_line |-> toks[pos].n, first_column |-> toks[pos + 1].n,
     last_line |-> toks[pos + 2].n, last_column |-> toks[pos + 3].n]

\* The slots tree_read fills for a node of kind k, in order.
ReadSlots(k) ==
       (IF HAS_IDENT(k) THEN <<"ident">> ELSE <<>>)
    \o (IF HAS_IDENT2(k) THEN <<"ident2">> ELSE <<>>)
    \o (IF HAS_PORTS(k) THEN <<"ports">> ELSE <<>>)
    \o (IF HAS_GENERICS(k) THEN <<"generics">> ELSE <<>>)
    \o (IF HAS_DECLS(k) THEN <<"decls">> ELSE <<>>)
    \o (IF HAS_TRIGGERS(k) THEN <<"triggers">> ELSE <<>>)
    \o (IF HAS_STMTS(k) THEN <<"stmts">> ELSE <<>>)
    \o (IF HAS_WAVEFORMS(k) THEN <<"waves">> ELSE <<>>)
    \o (IF HAS_TYPE(k) THEN <<"type">> ELSE <<>>)
    \o (IF HAS_VALUE(k) THEN <<"value">> ELSE <<>>)
    \o (IF HAS_TARGET(k) THEN <<"target">> ELSE <<>>)
    \o (IF HAS_REF(k) THEN <<"ref">> ELSE <<>>)
    \o (IF k \in {"T_ARCH", "T_ENTITY", "T_PACKAGE", "T_PBODY"} THEN <<"context">> ELSE <<>>)
    \o (IF HAS_PARAMS(k) THEN <<"params">> ELSE <<>>)
    \o (IF k = "T_LITERAL" THEN <<"literal">>
        ELSE IF k = "T_AGGREGATE" THEN <<"assocs">>
        ELSE IF k = "T_IF" THEN <<"elses">>
        ELSE <<>>)
    \o <<"attrs">>

SeqSlots == {"ports", "generics", "decls", "triggers", "stmts", "waves", "elses"}

TreeSlots == {"value", "target", "ref"}

RECURSIVE tree_read_aux(_, _)
RECURSIVE read_slots(_, _, _, _)
RECURSIVE read_a(_, _, _, _, _)
RECURSIVE read_assocs(_, _, _, _)
RECURSIVE read_attrs(_, _, _, _)

\* read_a: count trees into the sequence slot of node t.
read_a(st, toks, t, slot, count) ==
    IF count = 0 \/ st.abort THEN st
    ELSE LET s1 == tree_read_aux(st, toks)
         IN read_a([s1 EXCEPT !.h[t][slot] = Append(@, s1.res)], toks, t, slot, count - 1)

read_assocs(st, toks, t, count) ==
    IF count = 0 \/ st.abort THEN st
    ELSE LET kind == toks[st.pos].s
             s1 == tree_read_aux([st EXCEPT !.pos = @ + 1], toks)
             s2 == IF kind = "A_POS" THEN [s1 EXCEPT !.pos = @ + 1, !.res = NULL]
                   ELSE IF kind = "A_NAMED" THEN tree_read_aux(s1, toks)
                   ELSE [s1 EXCEPT !.res = NULL]
             a  == Assoc(kind, IF kind = "A_POS" THEN toks[s1.pos].n ELSE 0,
                         s2.res, s1.res)
         IN read_assocs([s2 EXCEPT !.h[t].assocs = Append(@, a)], toks, t, count - 1)

read_attrs(st, toks, t, count) ==
    IF count = 0 \/ st.abort THEN st
    ELSE LET kind == toks[st.pos].s
             name == toks[st.pos + 1].s
             s1 == IF kind = "A_INT" THEN [st EXCEPT !.pos = @ + 3, !.res = NULL]
                   ELSE tree_read_aux([st EXCEPT !.pos = @ + 2], toks)
             a  == IF kind = "A_INT" THEN AttrInt(name, toks[st.pos + 2].n)
                   ELSE AttrTree(name, s1.res)
         IN read_attrs([s1 EXCEPT !.h[t].attrs = Append(@, a)], toks, t, count - 1)

read_slots(st, toks, t, slots) ==
    IF slots = <<>> \/ st.abort THEN st
    ELSE LET sl == Head(slots)
             tk == toks[st.pos]
             s1 ==
               IF sl \in {"ident", "ident2"}
               THEN \* tree_set_ident asserts that the identifier is not NULL
                    IF tk.s = "" THEN [st EXCEPT !.abort = TRUE]
                    ELSE [st EXCEPT !.h[t][sl] = tk.s, !.pos = @ + 1]
               ELSE IF sl \in SeqSlots
               THEN read_a([st EXCEPT !.pos = @ + 1], toks, t, sl, tk.n)
               ELSE IF sl = "type" THEN [st EXCEPT !.h[t].type = tk.n, !.pos = @ + 1]
               ELSE IF sl \in TreeSlots
               THEN LET r == tree_read_aux(st, toks) IN [r EXCEPT !.h[t][sl] = r.res]
               ELSE IF sl \in {"context", "params"} THEN [st EXCEPT !.pos = @ + 1]
               ELSE IF sl = "literal"
               THEN [st EXCEPT !.h[t].literal = toks[st.pos + 1].n, !.pos = @ + 2]
               ELSE IF sl = "assocs"
               THEN read_assocs([st EXCEPT !.pos = @ + 1], toks, t, tk.n)
               ELSE read_attrs([st EXCEPT !.pos = @ + 1], toks, t, tk.n)
         IN read_slots(s1, toks, t, Tail(slots))

tree_read_aux(st, toks) ==
    IF st.abort THEN st
    ELSE LET marker == toks[st.pos]
         IN IF marker.s = "" /\ marker.n = NULL_MARKER
            THEN [st EXCEPT !.pos = @ + 1, !.res = NULL]
            ELSE IF marker.s = "" /\ marker.n = BACKREF_MARKER
            THEN LET index == toks[st.pos + 1].n
                 IN IF index < Len(st.store)
                    THEN [st EXCEPT !.pos = @ + 2, !.res = st.store[index + 1]]
                    ELSE [st EXCEPT !.abort = TRUE]
            ELSE LET t  == Len(st.h) + 1
                     n  == [NewTree(marker.s) EXCEPT !.loc = read_loc(toks, st.pos + 1),
                                                     !.index = Len(st.store)]
                     s1 == [st EXCEPT !.h = Append(@, n), !.reg = Append(@, t),
                                      !.store = Append(@, t), !.pos = @ + 5]
                     s2 == read_slots(s1, toks, t, ReadSlots(marker.s))
                IN [s2 EXCEPT !.res = t]

\* ---------------------------------------------------------------- deep copy

\* struct tree_copy_ctx and the result: st = [h, reg, copied, from, res,
\* overflow]; from[i] is the node whose copy copied[i] is.
CopyState(h, reg) == [h |-> h, reg |-> reg, copied |-> <<>>, from |-> <<>>,
                      res |-> NULL, overflow |-> FALSE]

CSeq(slot, s) == [i \in 1..Len(s) |-> [op |-> "append", slot |-> slot, t |-> s[i],
                                        a |-> Assoc("", 0, NULL, NULL)]]

CSet(slot, t) == <<[op |-> "set", slot |-> slot, t |-> t, a |-> Assoc("", 0, NULL, NULL)]>>

\* The associations of an aggregate: only the name of a named association
\* is copied, the association is then added with tree_add_assoc.
CAssocs(as) ==
    [i \in 1..Len(as) |->
        [op |-> IF as[i].kind = "A_NAMED" THEN "assoc_named" ELSE "assoc",
         slot |-> "assocs", t |-> as[i].name, a |-> as[i]]]

\* The slots tree_copy_aux fills by copying, in order.
CopySteps(n) ==
    LET k == n.kind IN
       (IF HAS_PORTS(k) THEN CSeq("ports", n.ports) ELSE <<>>)
    \o (IF HAS_GENERICS(k) THEN CSeq("generics", n.generics) ELSE <<>>)
    \o (IF HAS_DECLS(k) THEN CSeq("decls", n.decls) ELSE <<>>)
    \o (IF HAS_TRIGGERS(k) THEN CSeq("triggers", n.triggers) ELSE <<>>)
    \o (IF HAS_STMTS(k) THEN CSeq("stmts", n.stmts) ELSE <<>>)
    \o (IF HAS_WAVEFORMS(k) THEN CSeq("waves", n.waves) ELSE <<>>)
    \o (IF HAS_VALUE(k) THEN CSet("value", n.value) ELSE <<>>)
    \o (IF HAS_TARGET(k) THEN CSet("target", n.target) ELSE <<>>)
    \o (IF HAS_REF(k) THEN CSet("ref", n.ref) ELSE <<>>)
    \o (IF k = "T_AGGREGATE" THEN CAssocs(n.assocs)
        ELSE IF k = "T_IF" THEN CSeq("elses", n.elses)
        ELSE <<>>)

\* tree_add_assoc: a positional association gets the number of positional
\* associations before it as its position.
tree_add_assoc(as, a) ==
    Append(as, IF a.kind = "A_POS"
               THEN [a EXCEPT !.pos = Cardinality({i \in 1..Len(as) : as[i].kind = "A_POS"})]
               ELSE a)

\* The fields tree_copy_aux assigns without copying a tree: location,
\* identifiers, the attached type (by reference), the literal and the
\* attributes (a tree attribute keeps pointing to the same tree).
CopyScalars(n) ==
    LET k == n.kind IN
    [NewTree(k) EXCEPT !.loc = n.loc,
                       !.ident = IF HAS_IDENT(k) THEN n.ident ELSE "",
                       !.ident2 = IF HAS_IDENT2(k) THEN n.ident2 ELSE "",
                       !.type = IF HAS_TYPE(k) THEN n.type ELSE NULL,
                       !.literal = IF k = "T_LITERAL" THEN n.literal ELSE 0,
                       !.attrs = n.attrs]

RECURSIVE tree_copy_aux(_, _, _, _)
RECURSIVE tree_copy_steps(_, _, _, _, _)

tree_copy_steps(st, c, steps, generation, path) ==
    IF steps = <<>> \/ st.overflow THEN st
    ELSE LET p  == Head(steps)
             s1 == IF p.op = "assoc" THEN st
                   ELSE tree_copy_aux(st, p.t, generation, path)
             s2 == IF p.op = "append" THEN [s1 EXCEPT !.h[c][p.slot] = Append(@, s1.res)]
                   ELSE IF p.op = "set" THEN [s1 EXCEPT !.h[c][p.slot] = s1.res]
                   ELSE IF p.op = "assoc_named"
                   THEN [s1 EXCEPT !.h[c].assocs = tree_add_assoc(@, [p.a EXCEPT !.name = s1.res])]
                   ELSE [s1 EXCEPT !.h[c].assocs = tree_add_assoc(@, p.a)]
         IN tree_copy_steps(s2, c, Tail(steps), generation, path)

tree_copy_aux(st, t, generation, path) ==
    IF st.overflow THEN st
    ELSE IF t = NULL THEN [st EXCEPT !.res = NULL]
    ELSE IF st.h[t].generation = generation
    THEN [st EXCEPT !.res = st.copied[st.h[t].index + 1]]
    ELSE IF t \in path THEN [st EXCEPT !.overflow = TRUE]
    ELSE LET c  == Len(st.h) + 1
             s1 == [st EXCEPT !.h = Append([@ EXCEPT ![t].generation = generation % GEN_MOD,
                                                     ![t].index = Len(st.copied)],
                                           CopyScalars(st.h[t])),
                              !.reg = Append(@, c),
                              !.copied = Append(@, c),
                              !.from = Append(@, t)]
             s2 == tree_copy_steps(s1, c, CopySteps(st.h[t]), generation, path \cup {t})
         IN [s2 EXCEPT !.res = c]

\* tree_copy(t) with the generation it takes.
tree_copy_result(h, reg, t, generation) ==
    tree_copy_aux(CopyState(h, reg), t, generation, {})

\* ------------------------------------------------------------------ rewrite

\* The rewrite callback: fn returns NULL for the nodes of f.del, the node
\* f.rep[2] for the node f.rep[1], and its argument otherwise.
NoRep == <<>>

ApplyFn(f, t) ==
    IF t \in f.del THEN NULL
    ELSE IF f.rep # NoRep /\ f.rep[1] = t THEN f.rep[2]
    ELSE t

\* A compaction that keeps the deleted items.
rewrite_a_keep(items) == items

\* rewrite_a, second loop: the items rewritten to NULL are deleted, the
\* others keep their order.
rewrite_a_compact(items) == SelectNonNull(items)

RSeq(slot) == <<[op |-> "seq", slot |-> slot, i |-> 0]>>

\* The type declarations whose type tree_rewrite rewrites: those with an
\* integer, physical or constrained array type.
RangedTypeDecl(n, ty) ==
    /\ n.kind = "T_TYPE_DECL"
    /\ n.type # NULL
    /\ ty[n.type].kind \in {"T_INTEGER", "T_PHYSICAL", "T_CARRAY"}

\* A rewriting that leaves the declared type alone.
RewrittenDims_none(ty, type) == <<>>

\* The dimensions tree_rewrite rewrites for a type declaration.
RewrittenDims(ty, type) ==
    IF type # NULL /\ ty[type].kind \in {"T_INTEGER", "T_PHYSICAL", "T_CARRAY"}
    THEN [i \in 1..Len(ty[type].dims) |-> [op |-> "dim", slot |-> "", i |-> i]]
    ELSE <<>>

\* What tree_rewrite rewrites of node n before it applies fn, in order.
RewriteSteps(n, ty) ==
    LET k == n.kind IN
       (IF HAS_GENERICS(k) THEN RSeq("generics") ELSE <<>>)
    \o (IF HAS_PORTS(k) THEN RSeq("ports") ELSE <<>>)
    \o (IF HAS_DECLS(k) THEN RSeq("decls") ELSE <<>>)
    \o (IF HAS_TRIGGERS(k) THEN RSeq("triggers") ELSE <<>>)
    \o (IF HAS_STMTS(k) THEN RSeq("stmts") ELSE <<>>)
    \o (IF HAS_WAVEFORMS(k) THEN RSeq("waves") ELSE <<>>)
    \o (IF HAS_TARGET(k) THEN <<[op |-> "target", slot |-> "target", i |-> 0]>> ELSE <<>>)
    \o (IF HAS_VALUE(k) /\ n.value # NULL
        THEN <<[op |-> "value", slot |-> "value", i |-> 0]>> ELSE <<>>)
    \o (IF k = "T_AGGREGATE"
        THEN [i \in 1..Len(n.assocs) |-> [op |-> "assoc", slot |-> "assocs", i |-> i]]
        ELSE IF k = "T_TYPE_DECL" THEN RewrittenDims(ty, n.type)
        ELSE IF k = "T_IF" THEN RSeq("elses")
        ELSE <<>>)

RewriteState(h, ty) == [h |-> h, ty |-> ty, calls |-> <<>>, res |-> NULL, abort |-> FALSE]

RECURSIVE tree_rewrite_aux(_, _, _)
RECURSIVE tree_rewrite_steps(_, _, _, _)
RECURSIVE rewrite_a(_, _, _, _, _)

\* rewrite_a, first loop: item i of the slot is replaced by its rewriting.
rewrite_a(st, t, slot, i, f) ==
    IF st.abort THEN st
    ELSE IF i > Len(st.h[t][slot])
    THEN [st EXCEPT !.h[t][slot] = rewrite_a_compact(@)]
    ELSE LET s1 == tree_rewrite_aux(st, st.h[t][slot][i], f)
         IN rewrite_a([s1 EXCEPT !.h[t][slot][i] = s1.res], t, slot, i + 1, f)

tree_rewrite_steps(st, t, steps, f) ==
    IF steps = <<>> \/ st.abort THEN st
    ELSE LET p == Head(steps)
             n == st.h[t]
             s1 ==
               IF p.op = "seq" THEN rewrite_a(st, t, p.slot, 1, f)
               ELSE IF p.op = "target"
               THEN \* tree_target asserts that there is a target
                    IF n.target = NULL THEN [st EXCEPT !.abort = TRUE]
                    ELSE LET r == tree_rewrite_aux(st, n.target, f)
                         IN [r EXCEPT !.h[t].target = r.res]
               ELSE IF p.op = "value"
               THEN LET r == tree_rewrite_aux(st, n.value, f)
                    IN \* tree_set_value asserts v == NULL || IS_EXPR(v)
                       IF r.abort \/ r.res = NULL \/ IS_EXPR(r.h[r.res].kind)
                       THEN [r EXCEPT !.h[t].value = r.res]
                       ELSE [r EXCEPT !.abort = TRUE]
               ELSE IF p.op = "assoc"
               THEN LET r1 == tree_rewrite_aux(st, n.assocs[p.i].value, f)
                        r2 == [r1 EXCEPT !.h[t].assocs[p.i].value = r1.res]
                    IN IF n.assocs[p.i].kind = "A_NAMED"
                       THEN LET r3 == tree_rewrite_aux(r2, n.assocs[p.i].name, f)
                            IN [r3 EXCEPT !.h[t].assocs[p.i].name = r3.res]
                       ELSE r2
               ELSE \* a dimension of the declared type: type_change_dim
                    LET r1 == tree_rewrite_aux(st, st.ty[n.type].dims[p.i].left, f)
                        r2 == tree_rewrite_aux(r1, st.ty[n.type].dims[p.i].right, f)
                    IN [r2 EXCEPT !.ty[n.type].dims[p.i] =
                                      [left |-> r1.res, right |-> r2.res]]
         IN tree_rewrite_steps(s1, t, Tail(steps), f)

\* tree_rewrite(t, fn, context): t is dereferenced at once, a NULL t is a
\* crash.
tree_rewrite_aux(st, t, f) ==
    IF st.abort THEN st
    ELSE IF t = NULL THEN [st EXCEPT !.abort = TRUE]
    ELSE LET s1 == tree_rewrite_steps(st, t, RewriteSteps(st.h[t], st.ty), f)
         IN IF s1.abort THEN s1
            ELSE [s1 EXCEPT !.calls = Append(@, t), !.res = ApplyFn(f, t)]

\* ------------------------------------------------------------ simplification

\* simp.c reads and builds nodes through the accessors of tree.h.  A node
\* is written here as the record of the slots simp.c reads of it, a slot
\* holding a node holds that node's record.
NoTree == [kind |-> "NULL"]

Literal(v) == [kind |-> "T_LITERAL", ival |-> v]

Open == [kind |-> "T_OPEN"]

RefTo(decl) == [kind |-> "T_REF", ident |-> decl.ident, ref |-> decl]

ScalarType == [scalar |-> TRUE]

ArrayType == [scalar |-> FALSE]

SignalDecl == [kind |-> "T_SIGNAL_DECL", ident |-> "s"]

EnumLit(name, pos, type) == [kind |-> "T_ENUM_LIT", ident |-> name, pos |-> pos, type |-> type]

\* A parameter of a call (a T_PARAM node): subkind P_POS or P_NAMED.
PosParam(i, v) == [subkind |-> "P_POS", pos |-> i, name |-> NoTree, value |-> v]

NamedParam(n, v) ==
    [subkind |-> "P_NAMED", pos |-> 0,
     name |-> [kind |-> "T_REF", ident |-> n], value |-> v]

\* add_param(call, value, P_POS, NULL): the position is the number of
\* parameters the call has.
add_param(params, value) == Append(params, PosParam(Len(params), value))

\* tree_value(port): the default value of the port; the accessor asserts
\* that there is one.
HasValue(n) == n.value # NoTree

\* simp_call_args(t): st = [t, abort].
RECURSIVE FindNamed(_, _, _)
FindNamed(params, j, name) ==
    IF j > Len(params) THEN 0
    ELSE IF params[j].name.ident = name THEN j
    ELSE FindNamed(params, j + 1, name)

LastPos(params) ==
    LET P == {i \in 1..Len(params) : params[i].subkind = "P_POS"}
    IN IF P = {} THEN 0 ELSE CHOOSE i \in P : \A j \in P : j <= i

\* The value the new call gets for a port: the value of the parameter, or
\* the port's default if the parameter is open.
ArgValue(param, port) ==
    IF param.value.kind = "T_OPEN" THEN port.value ELSE param.value

RECURSIVE call_args_named(_, _, _, _, _)
call_args_named(st, t, ports, last_pos, i) ==
    IF st.abort \/ i > Len(ports) THEN st
    ELSE LET j == FindNamed(t.params, last_pos + 1, ports[i].ident)
         IN IF j = 0
            THEN \* assert(found)
                 [st EXCEPT !.abort = TRUE]
            ELSE IF t.params[j].value.kind = "T_OPEN" /\ ~HasValue(ports[i])
            THEN [st EXCEPT !.abort = TRUE]
            ELSE call_args_named(
                    [st EXCEPT !.t.params = add_param(@, ArgValue(t.params[j], ports[i]))],
                    t, ports, last_pos, i + 1)

RECURSIVE call_args_pos(_, _, _, _, _)
call_args_pos(st, t, ports, last_pos, i) ==
    IF st.abort \/ i > last_pos THEN st
    ELSE IF i > Len(ports) \/ (t.params[i].value.kind = "T_OPEN" /\ ~HasValue(ports[i]))
    THEN \* tree_port / tree_value assert
         [st EXCEPT !.abort = TRUE]
    ELSE call_args_pos(
            [st EXCEPT !.t.params = add_param(@, ArgValue(t.params[i], ports[i]))],
            t, ports, last_pos, i + 1)

simp_call_args(t) ==
    LET ports    == t.ref.ports
        last_pos == LastPos(t.params)
    IN IF last_pos < Len(t.params)
       THEN LET new == IF t.kind = "T_FCALL"
                       THEN [kind |-> t.kind, loc |-> t.loc, ident |-> t.ident,
                             ref |-> t.ref, type |-> t.type, flags |-> t.flags,
                             params |-> <<>>]
                       ELSE IF t.kind = "T_CPCALL"
                       THEN [kind |-> t.kind, loc |-> t.loc, ident |-> t.ident,
                             ident2 |-> t.ident2, ref |-> t.ref, params |-> <<>>]
                       ELSE [kind |-> t.kind, loc |-> t.loc, ident |-> t.ident,
                             ref |-> t.ref, params |-> <<>>]
                s1  == call_args_pos([t |-> new, abort |-> FALSE], t, ports, last_pos, 1)
            IN call_args_named(s1, t, ports, last_pos, last_pos + 1)
       ELSE [t |-> t, abort |-> FALSE]

type_is_scalar(type) == type.scalar

\* is_open_coded_builtin(kind)
is_open_coded_builtin(kind) == kind = "S_ADD"

\* fold_possible(t, flags)
RECURSIVE fold_possible(_, _)
fold_possible(t, flags) ==
    CASE t.kind = "T_FCALL" ->
           LET decl == t.ref
               kind == decl.subkind
           IN IF kind = "S_USER" /\ "EVAL_FCALL" \notin flags THEN FALSE
              ELSE IF kind = "S_FOREIGN" THEN FALSE
              ELSE IF "TREE_F_IMPURE" \in decl.flags THEN FALSE
              ELSE IF "TREE_F_GLOBALLY_STATIC" \notin t.flags THEN FALSE
              ELSE IF kind # "S_USER" /\ ~is_open_coded_builtin(kind) /\ ~decl.unit
              THEN FALSE
              ELSE \A i \in 1..Len(t.params) :
                      LET p == t.params[i].value
                      IN /\ fold_possible(p, flags)
                         /\ ~(p.kind = "T_FCALL" /\ type_is_scalar(p.type))
      [] t.kind = "T_LITERAL" -> TRUE
      [] t.kind \in {"T_TYPE_CONV", "T_QUALIFIED", "T_RECORD_REF"} ->
           fold_possible(t.value, flags)
      [] t.kind = "T_REF" ->
           LET decl == t.ref
           IN IF decl.kind \in {"T_UNIT_DECL", "T_ENUM_LIT"} THEN TRUE
              ELSE IF decl.kind = "T_CONST_DECL"
              THEN IF HasValue(decl) THEN fold_possible(decl.value, flags)
                   ELSE "EVAL_FCALL" \in flags
              ELSE FALSE
      [] t.kind = "T_AGGREGATE" ->
           \A i \in 1..Len(t.assocs) : fold_possible(t.assocs[i].value, flags)
      [] OTHER -> FALSE

\* A refusal that tells nobody.
fold_not_possible_silent(t, flags, why) == <<>>

\* fold_not_possible(t, flags, why): the diagnostics it emits, the result
\* being false.
fold_not_possible(t, flags, why) ==
    IF "EVAL_WARN" \in flags THEN <<[level |-> "warn", why |-> why]>> ELSE <<>>

\* The diagnostics emitted during fold_possible(t, flags), in order: those
\* of the calls it makes up to the one that returns false.
RECURSIVE fold_warnings(_, _), fold_warnings_upto(_, _, _)
fold_warnings_upto(vs, flags, i) ==
    IF i > Len(vs) THEN <<>>
    ELSE IF ~fold_possible(vs[i], flags) THEN fold_warnings(vs[i], flags)
    ELSE fold_warnings(vs[i], flags) \o fold_warnings_upto(vs, flags, i + 1)

fold_warnings(t, flags) ==
    CASE t.kind = "T_FCALL" ->
           LET decl == t.ref
               kind == decl.subkind
           IN IF kind = "S_USER" /\ "EVAL_FCALL" \notin flags
              THEN fold_not_possible(t, flags, "call to user defined function")
              ELSE IF kind = "S_FOREIGN"
              THEN fold_not_possible(t, flags, "call to foreign function")
              ELSE IF "TREE_F_IMPURE" \in decl.flags
              THEN fold_not_possible(t, flags, "call to impure function")
              ELSE IF "TREE_F_GLOBALLY_STATIC" \notin t.flags
              THEN fold_not_possible(t, flags, "non-static expression")
              ELSE IF kind # "S_USER" /\ ~is_open_coded_builtin(kind) /\ ~decl.unit
              THEN fold_not_possible(t, flags, "not yet lowered predef")
              ELSE LET vs == [i \in 1..Len(t.params) |-> t.params[i].value]
                       stop == { i \in 1..Len(vs) :
                                   \/ ~fold_possible(vs[i], flags)
                                   \/ (vs[i].kind = "T_FCALL"
                                       /\ type_is_scalar(vs[i].type)) }
                       n == IF stop = {} THEN Len(vs)
                            ELSE CHOOSE i \in stop : \A j \in stop : i <= j
                   IN fold_warnings_upto(SubSeq(vs, 1, n), flags, 1)
      [] t.kind = "T_LITERAL" -> <<>>
      [] t.kind \in {"T_TYPE_CONV", "T_QUALIFIED", "T_RECORD_REF"} ->
           fold_warnings(t.value, flags)
      [] t.kind = "T_REF" ->
           LET decl == t.ref
           IN IF decl.kind \in {"T_UNIT_DECL", "T_ENUM_LIT"} THEN <<>>
              ELSE IF decl.kind = "T_CONST_DECL"
              THEN IF HasValue(decl) THEN fold_warnings(decl.value, flags)
                   ELSE IF "EVAL_FCALL" \notin flags
                   THEN fold_not_possible(t, flags, "deferred constant")
                   ELSE <<>>
              ELSE fold_not_possible(t, flags, "reference")
      [] t.kind = "T_AGGREGATE" ->
           fold_warnings_upto([i \in 1..Len(t.assocs) |-> t.assocs[i].value], flags, 1)
      [] OTHER -> fold_not_possible(t, flags, "aggregate")

\* exec_get_flags(ctx->exec): the flags the evaluator was made with and,
\* when the evaluator is verbose, EVAL_WARN.
exec_get_flags(ex, verbose) == ex \cup (IF verbose THEN {"EVAL_WARN"} ELSE {})

\* lower_thunk(t): whether a thunk is made for the call depends on what is
\* called; exec_fold(ex, t, thunk) gives the literal the call evaluates to.
lower_thunk(t) == t.ref.lowers

exec_fold(t) == [kind |-> "T_LITERAL", ival |-> 42, loc |-> t.loc]

\* The context of a pass: the flags of its evaluator and its eval_mask.
LocalCtx == [exec |-> {}, eval_mask |-> {"TREE_F_LOCALLY_STATIC"}]

GlobalCtx == [exec |-> {"EVAL_FCALL"},
              eval_mask |-> {"TREE_F_GLOBALLY_STATIC", "TREE_F_LOCALLY_STATIC"}]

\* A folding that does not ask for a thunk.
simp_fold_no_thunk(t, ctx) ==
    IF ~type_is_scalar(t.type) THEN t
    ELSE IF ~fold_possible(t, ctx.exec) THEN t
    ELSE exec_fold(t)

\* simp_fold(t, ctx)
simp_fold(t, ctx) ==
    IF ~type_is_scalar(t.type) THEN t
    ELSE IF ~fold_possible(t, ctx.exec) THEN t
    ELSE IF ~lower_thunk(t) THEN t
    ELSE exec_fold(t)

\* simp_fcall(t, ctx)
simp_fcall(t, ctx) ==
    LET n == simp_call_args(t)
    IN IF n.abort THEN n
       ELSE IF n.t.flags \cap ctx.eval_mask # {}
       THEN [t |-> simp_fold(n.t, ctx), abort |-> FALSE]
       ELSE n

\* The diagnostics emitted during simp_fold(t, ctx) and simp_fcall(t, ctx).
simp_fold_warnings(t, flags) ==
    IF ~type_is_scalar(t.type) THEN <<>> ELSE fold_warnings(t, flags)

simp_fcall_warnings(t, ctx, flags) ==
    LET n == simp_call_args(t)
    IN IF ~n.abort /\ n.t.flags \cap ctx.eval_mask # {}
       THEN simp_fold_warnings(n.t, flags)
       ELSE <<>>

\* folded_bool(t, &b): t is a reference to a literal of type BOOLEAN.
folded_bool(t) ==
    IF t.kind = "T_REF" /\ t.ref.kind = "T_ENUM_LIT" /\ t.ref.type = "BOOLEAN"
    THEN [ok |-> TRUE, b |-> (t.ref.pos = 1)]
    ELSE [ok |-> FALSE, b |-> FALSE]

\* The block simp_if makes of the statements of a branch.
Block(t, stmts) == [kind |-> "T_BLOCK", loc |-> t.loc, ident |-> t.ident, stmts |-> stmts]

\* An if that takes the else part for every folded condition.
simp_if_else_only(t) ==
    LET c == folded_bool(t.value)
    IN IF ~c.ok THEN t
       ELSE IF Len(t.else_stmts) = 1 THEN t.else_stmts[1]
       ELSE IF Len(t.else_stmts) = 0 THEN NoTree
       ELSE Block(t, t.else_stmts)

\* simp_if(t)
simp_if(t) ==
    LET c == folded_bool(t.value)
    IN IF ~c.ok THEN t
       ELSE IF c.b
       THEN IF Len(t.stmts) = 1 THEN t.stmts[1] ELSE Block(t, t.stmts)
       ELSE IF Len(t.else_stmts) = 1 THEN t.else_stmts[1]
       ELSE IF Len(t.else_stmts) = 0 THEN NoTree
       ELSE Block(t, t.else_stmts)

\* folded_int(t, &v): t is an integer literal.
folded_int(t) ==
    IF t.kind = "T_LITERAL" THEN [ok |-> TRUE, v |-> t.ival]
    ELSE [ok |-> FALSE, v |-> 0]

\* An arm of a case statement (a T_ASSOC node): its choice is a name, a
\* range or others; value is NoTree if the arm has no value.
CaseArm(subkind, name, left, right, value) ==
    [subkind |-> subkind, name |-> name, left |-> left, right |-> right, value |-> value]

\* The loop of simp_case over the arms from arm i on: a named arm whose
\* choice folds to ival and an others arm end it, a range arm is passed
\* over.
RECURSIVE case_arms(_, _, _)
case_arms(t, ival, i) ==
    IF i > Len(t.assocs) THEN t
    ELSE LET a == t.assocs[i]
         IN IF a.subkind = "A_NAMED"
            THEN IF folded_int(a.name).ok /\ folded_int(a.name).v = ival
                 THEN a.value
                 ELSE case_arms(t, ival, i + 1)
            ELSE IF a.subkind = "A_OTHERS" THEN a.value
            ELSE case_arms(t, ival, i + 1)

\* simp_case(t)
simp_case(t) ==
    IF Len(t.assocs) = 0 THEN NoTree
    ELSE IF folded_int(t.value).ok THEN case_arms(t, folded_int(t.value).v, 1)
    ELSE t

\* ---- wait statements built from what a statement reads

Sig(name) == [kind |-> "T_SIGNAL_DECL", ident |-> name]

Var(name) == [kind |-> "T_VAR_DECL", ident |-> name]

ArrayRef(value, index) ==
    [kind |-> "T_ARRAY_REF", value |-> value, params |-> <<PosParam(0, index)>>]

RangeTo(left, right) ==
    [kind |-> "T_RANGE", subkind |-> "RANGE_TO", left |-> left, right |-> right]

ArraySlice(value, left, right) ==
    [kind |-> "T_ARRAY_SLICE", value |-> value, ranges |-> <<RangeTo(left, right)>>]

Waveform(value) == [kind |-> "T_WAVEFORM", value |-> value]

\* class_of(t): the class of a declaration, or of the object a name denotes.
RECURSIVE class_of(_)
class_of(t) ==
    CASE t.kind \in {"T_SIGNAL_DECL", "T_IMPLICIT_SIGNAL"} -> "C_SIGNAL"
      [] t.kind = "T_VAR_DECL" -> "C_VARIABLE"
      [] t.kind = "T_CONST_DECL" -> "C_CONSTANT"
      [] t.kind = "T_PORT_DECL" -> t.class
      [] t.kind = "T_REF" -> class_of(t.ref)
      [] t.kind \in {"T_ARRAY_REF", "T_ARRAY_SLICE"} -> class_of(t.value)
      [] OTHER -> "C_DEFAULT"

\* simp_is_static(expr)
RECURSIVE simp_is_static(_)
simp_is_static(expr) ==
    CASE expr.kind = "T_REF" ->
           LET decl == expr.ref
           IN CASE decl.kind \in {"T_CONST_DECL", "T_UNIT_DECL", "T_ENUM_LIT"} -> TRUE
                [] decl.kind = "T_PORT_DECL" -> decl.class = "C_CONSTANT"
                [] decl.kind = "T_ALIAS" -> simp_is_static(decl.value)
                [] OTHER -> FALSE
      [] expr.kind = "T_LITERAL" -> TRUE
      [] OTHER -> FALSE

\* simp_longest_static_prefix(expr)
RECURSIVE simp_longest_static_prefix(_)
simp_longest_static_prefix(expr) ==
    CASE expr.kind = "T_ARRAY_REF" ->
           LET prefix == simp_longest_static_prefix(expr.value)
           IN IF prefix # expr.value THEN prefix
              ELSE IF \E i \in 1..Len(expr.params) : ~simp_is_static(expr.params[i].value)
              THEN prefix
              ELSE expr
      [] expr.kind = "T_ARRAY_SLICE" ->
           LET prefix == simp_longest_static_prefix(expr.value)
           IN IF prefix # expr.value THEN prefix
              ELSE IF \E i \in 1..Len(expr.ranges) :
                         \/ ~simp_is_static(expr.ranges[i].left)
                         \/ ~simp_is_static(expr.ranges[i].right)
              THEN prefix
              ELSE expr
      [] OTHER -> expr

\* A wait statement being built: its triggers, and whether fatal_trace or
\* an assertion ended the process.
WaitState(triggers) == [triggers |-> triggers, abort |-> FALSE]

\* tree_add_trigger(wait, s)
tree_add_trigger(st, s) == [st EXCEPT !.triggers = Append(@, s)]

\* The mode of port i of decl for parameter i of a call: PORT_IN if the
\* declaration has no such port.
ParamMode(decl, i) == IF i <= Len(decl.ports) THEN decl.ports[i].mode ELSE "PORT_IN"

RECURSIVE simp_build_wait(_, _, _)
RECURSIVE build_wait_each(_, _, _)
RECURSIVE simp_build_wait_for_target(_, _, _)

\* simp_build_wait on each expression of a sequence, in order.
build_wait_each(st, exprs, all) ==
    IF exprs = <<>> \/ st.abort THEN st
    ELSE build_wait_each(simp_build_wait(st, Head(exprs), all), Tail(exprs), all)

\* simp_build_wait_for_target(wait, expr, all)
simp_build_wait_for_target(st, expr, all) ==
    CASE expr.kind = "T_ARRAY_SLICE" -> simp_build_wait(st, expr.ranges[1], all)
      [] expr.kind = "T_ARRAY_REF" ->
           build_wait_each(st, [i \in 1..Len(expr.params) |-> expr.params[i].value], all)
      [] OTHER -> st

\* simp_build_wait(wait, expr, all)
simp_build_wait(st, expr, all) ==
    IF st.abort THEN st
    ELSE LET k == expr.kind IN
    CASE k = "T_REF" ->
           IF class_of(expr.ref) = "C_SIGNAL"
           THEN IF \E i \in 1..Len(st.triggers) :
                      st.triggers[i].kind = "T_REF" /\ st.triggers[i].ref = expr.ref
                THEN st
                ELSE tree_add_trigger(st, expr)
           ELSE st
      [] k \in {"T_ARRAY_SLICE", "T_ARRAY_REF"} ->
           IF class_of(expr) = "C_SIGNAL"
           THEN IF simp_longest_static_prefix(expr) = expr
                THEN tree_add_trigger(st, expr)
                ELSE simp_build_wait_for_target(simp_build_wait(st, expr.value, all),
                                                expr, all)
           ELSE st
      [] k \in {"T_WAVEFORM", "T_RECORD_REF", "T_QUALIFIED", "T_TYPE_CONV", "T_ASSERT"} ->
           IF HasValue(expr) THEN simp_build_wait(st, expr.value, all) ELSE st
      [] k \in {"T_FCALL", "T_PCALL"} ->
           LET decl == expr.ref
               read == SelectSeq([i \in 1..Len(expr.params) |->
                                     [m |-> ParamMode(decl, i), v |-> expr.params[i].value]],
                                 LAMBDA x : x.m \in {"PORT_IN", "PORT_INOUT"})
               s1   == build_wait_each(st, [i \in 1..Len(read) |-> read[i].v], all)
           IN IF all /\ decl.kind = "T_PROC_BODY" THEN simp_build_wait(s1, decl, all)
              ELSE s1
      [] k = "T_AGGREGATE" ->
           build_wait_each(st, [i \in 1..Len(expr.assocs) |-> expr.assocs[i].value], all)
      [] k = "T_ATTR_REF" ->
           build_wait_each(st,
               (IF expr.subkind \in {"ATTR_EVENT", "ATTR_ACTIVE"} THEN <<expr.name>> ELSE <<>>)
               \o [i \in 1..Len(expr.params) |-> expr.params[i].value], all)
      [] k = "T_LITERAL" -> st
      [] k = "T_IF" ->
           build_wait_each(st, <<expr.value>> \o expr.stmts \o expr.else_stmts, all)
      [] k \in {"T_PROCESS", "T_BLOCK", "T_PROC_BODY"} ->
           build_wait_each(st, expr.stmts, all)
      [] k = "T_SIGNAL_ASSIGN" ->
           build_wait_each(simp_build_wait_for_target(st, expr.target, all),
                           expr.waveforms, all)
      [] k = "T_VAR_ASSIGN" ->
           simp_build_wait(simp_build_wait_for_target(st, expr.target, all),
                           expr.value, all)
      [] k = "T_CASE" ->
           build_wait_each(st, <<expr.value>> \o
                               [i \in 1..Len(expr.assocs) |-> expr.assocs[i].value], all)
      [] k = "T_FOR" -> build_wait_each(st, <<expr.ranges[1]>> \o expr.stmts, all)
      [] k = "T_WHILE" -> build_wait_each(st, <<expr.value>> \o expr.stmts, all)
      [] k = "T_RANGE" ->
           IF expr.subkind = "RANGE_EXPR" THEN simp_build_wait(st, expr.value, all)
           ELSE build_wait_each(st, <<expr.left, expr.right>>, all)
      [] OTHER -> \* fatal_trace("Cannot handle tree kind ...")
           [st EXCEPT !.abort = TRUE]

\* ---- concurrent statements made processes

\* A new process with the identifier and location of t, and a new wait.
Process(t, flags, decls, stmts) ==
    [kind |-> "T_PROCESS", ident |-> t.ident, loc |-> t.loc, flags |-> flags,
     decls |-> decls, triggers |-> <<>>, stmts |-> stmts]

Wait(ident, flags, triggers) ==
    [kind |-> "T_WAIT", ident |-> ident, flags |-> flags, triggers |-> triggers,
     value |-> NoTree]

\* simp_guard(t, wait): the if on the guard; the guard is made a trigger.
simp_guard(t, stmts) ==
    [kind |-> "T_IF", loc |-> t.loc, ident |-> "guard_if", value |-> t.guard,
     stmts |-> stmts, else_stmts |-> <<>>]

\* The statements a guarded statement's process holds before its wait.
Guarded(t, stmts) == IF HasValue([value |-> t.guard]) THEN <<simp_guard(t, stmts)>> ELSE stmts

\* The triggers simp_guard adds to the new wait.
GuardTriggers(t) ==
    IF HasValue([value |-> t.guard]) THEN tree_add_trigger(WaitState(<<>>), t.guard)
    ELSE WaitState(<<>>)

\* A condition of a concurrent assignment: value is NoTree for an
\* unconditional one.
Cond(value, waveforms) == [kind |-> "T_COND", value |-> value, waveforms |-> waveforms]

\* The signal assignment simp_cassign makes of condition c.
CondAssign(t, c) ==
    [kind |-> "T_SIGNAL_ASSIGN", loc |-> t.loc, ident |-> t.ident, target |-> t.target,
     waveforms |-> c.waveforms]

\* The loop of simp_cassign over the conditions: a condition with a value
\* becomes an if that holds its assignment, the statements of the later
\* conditions go to its else part.
RECURSIVE cassign_stmts(_, _)
cassign_stmts(t, conds) ==
    IF conds = <<>> THEN <<>>
    ELSE LET c == Head(conds)
         IN IF HasValue(c)
            THEN << [kind |-> "T_IF", loc |-> NoLoc, ident |-> "cond", value |-> c.value,
                     stmts |-> <<CondAssign(t, c)>>,
                     else_stmts |-> cassign_stmts(t, Tail(conds))] >>
            ELSE <<CondAssign(t, c)>> \o cassign_stmts(t, Tail(conds))

\* What simp_cassign gives simp_build_wait, in order.
cassign_reads(conds) ==
    Concat([i \in 1..Len(conds) |->
              (IF HasValue(conds[i]) THEN <<conds[i].value>> ELSE <<>>)
              \o conds[i].waveforms])

\* simp_cassign(t)
simp_cassign(t) ==
    LET w == build_wait_each(GuardTriggers(t), cassign_reads(t.conds), FALSE)
    IN [t |-> Process(t, {}, <<>>,
                      Guarded(t, cassign_stmts(t, t.conds))
                      \o <<Wait("cassign", {"TREE_F_STATIC_WAIT"}, w.triggers)>>),
        abort |-> w.abort]

\* What simp_select gives simp_build_wait, in order.
select_reads(t) ==
    <<t.value>> \o
    Concat([i \in 1..Len(t.assocs) |->
              (IF t.assocs[i].subkind = "A_NAMED" THEN <<t.assocs[i].name>> ELSE <<>>)
              \o t.assocs[i].value.waveforms])

\* simp_select(t)
simp_select(t) ==
    LET w == build_wait_each(GuardTriggers(t), select_reads(t), FALSE)
        c == [kind |-> "T_CASE", loc |-> t.loc, ident |-> "select_case",
              value |-> t.value, assocs |-> t.assocs]
    IN [t |-> Process(t, {}, <<>>,
                      Guarded(t, <<c>>)
                      \o <<Wait("select_wait", {"TREE_F_STATIC_WAIT"}, w.triggers)>>),
        abort |-> w.abort]

\* simp_cpcall(t)
simp_cpcall(t) ==
    LET n == simp_call_args(t)
    IN IF n.abort THEN n
       ELSE LET c     == n.t
                bad   == \E i \in 1..Len(c.params) :
                            \/ c.params[i].subkind # "P_POS"
                            \/ i > Len(c.ref.ports)
                read  == SelectSeq([i \in 1..Len(c.params) |->
                                      [m |-> ParamMode(c.ref, i), v |-> c.params[i].value]],
                                   LAMBDA x : x.m \in {"PORT_IN", "PORT_INOUT"})
                w     == build_wait_each(WaitState(<<>>),
                                         [i \in 1..Len(read) |-> read[i].v], FALSE)
                pcall == [kind |-> "T_PCALL", loc |-> c.loc, ident |-> "pcall",
                          ident2 |-> c.ident2, ref |-> c.ref, params |-> c.params]
            IN IF bad THEN [t |-> NoTree, abort |-> TRUE]
               ELSE [t |-> Process(c, {}, <<>>,
                                   <<pcall, Wait("pcall_wait", {}, w.triggers)>>),
                     abort |-> w.abort]

\* simp_cassert(t)
simp_cassert(t) ==
    IF folded_bool(t.value).ok /\ folded_bool(t.value).b THEN [t |-> NoTree, abort |-> FALSE]
    ELSE LET w == simp_build_wait(WaitState(<<>>), t.value, FALSE)
             a == [kind |-> "T_ASSERT", loc |-> t.loc, ident |-> "assert_wrap",
                   value |-> t.value, severity |-> t.severity, message |-> t.message]
         IN [t |-> Process(t, t.flags \cap {"TREE_F_POSTPONED"}, <<>>,
                           <<a, Wait("assert_wait", {"TREE_F_STATIC_WAIT"}, w.triggers)>>),
             abort |-> w.abort]

\* simp_process(t)
simp_process(t) ==
    IF Len(t.triggers) > 0
    THEN IF Len(t.stmts) = 0 THEN [t |-> NoTree, abort |-> FALSE]
         ELSE LET w == IF Len(t.triggers) = 1 /\ t.triggers[1].kind = "T_ALL"
                       THEN simp_build_wait(WaitState(<<>>), t, TRUE)
                       ELSE WaitState(t.triggers)
              IN [t |-> Process(t, {}, t.decls,
                                t.stmts \o <<Wait(t.ident, {"TREE_F_STATIC_WAIT"},
                                                  w.triggers)>>),
                  abort |-> w.abort]
    ELSE IF Len(t.stmts) = 1 /\ t.stmts[1].kind = "T_WAIT"
    THEN [t |-> NoTree, abort |-> FALSE]
    ELSE [t |-> t, abort |-> FALSE]

\* simp_wait(t)
simp_wait(t) ==
    IF HasValue(t) /\ Len(t.triggers) = 0
    THEN LET w == simp_build_wait(WaitState(<<>>), t.value, FALSE)
         IN [t |-> [t EXCEPT !.triggers = w.triggers], abort |-> w.abort]
    ELSE [t |-> t, abort |-> FALSE]

\* ---- the nodes simp_tree is given

\* The sequences of at most n elements of S, and those without repetition.
SeqsUpTo(S, n) == UNION {[1..k -> S] : k \in 0..n}

Perms(S) == {q \in SeqsUpTo(S, Cardinality(S)) : \A i, j \in 1..Len(q) : q[i] = q[j] => i = j}

\* The ports a subprogram may have, in order: the first has no default, the
\* default of the second is a signal.
PortPool ==
    << [kind |-> "T_PORT_DECL", ident |-> "a", value |-> NoTree],
       [kind |-> "T_PORT_DECL", ident |-> "b", value |-> RefTo(SignalDecl)],
       [kind |-> "T_PORT_DECL", ident |-> "c", value |-> Literal(7)] >>

\* The subprograms: user defined, foreign, impure, an open coded builtin
\* for which a thunk is or is not made, and a predefined one with and without
\* a lowered unit.
FuncDecl(subkind, flags, unit, lowers, nports) ==
    [kind |-> "T_FUNC_DECL", ident |-> "f", subkind |-> subkind, flags |-> flags,
     unit |-> unit, lowers |-> lowers, ports |-> SubSeq(PortPool, 1, nports)]

Decls ==
    { FuncDecl(p[1], p[2], p[3], p[4], n) :
        p \in { <<"S_USER", {}, FALSE, TRUE>>, <<"S_FOREIGN", {}, FALSE, TRUE>>,
                <<"S_USER", {"TREE_F_IMPURE"}, FALSE, TRUE>>,
                <<"S_ADD", {}, FALSE, TRUE>>, <<"S_ADD", {}, FALSE, FALSE>>,
                <<"S_TO_STRING", {}, TRUE, TRUE>>, <<"S_TO_STRING", {}, FALSE, TRUE>> },
        n \in 0..MaxPorts }

\* The values an argument may have.
ArgVals == {Literal(1), Open}

\* The parameter lists of a call to decl: positional parameters, then named
\* ones for some of the other ports in any order.
ParamLists(decl) ==
    LET n == Len(decl.ports)
    IN UNION { { [i \in 1..(npos + Len(names)) |->
                    IF i <= npos THEN PosParam(i - 1, vals[i])
                    ELSE NamedParam(names[i - npos], vals[i])] :
                 vals \in [1..(npos + Len(names)) -> ArgVals] } :
               npos \in 0..n,
               names \in Perms({decl.ports[i].ident : i \in 1..n}) }

\* The legal ones name no port that a positional parameter supplies.
LegalParams(decl, ps) ==
    \A i \in 1..Len(ps) :
       ps[i].subkind = "P_NAMED" =>
          \E j \in (LastPos(ps) + 1)..Len(decl.ports) : decl.ports[j].ident = ps[i].name.ident

Calls ==
    UNION { { [kind |-> "T_FCALL", loc |-> Loc("c.vhd", 4, 2), ident |-> "f",
               ref |-> d, type |-> ty, flags |-> fl, params |-> ps] :
              ty \in {ScalarType, ArrayType},
              fl \in SUBSET {"TREE_F_LOCALLY_STATIC", "TREE_F_GLOBALLY_STATIC"},
              ps \in {q \in ParamLists(d) : LegalParams(d, q)} } : d \in Decls }

\* Calls of a builtin whose argument is a call left unfolded: of scalar or
\* of array type, of a builtin for which no thunk is made or of a foreign
\* function.
NestedCalls ==
    LET add == FuncDecl("S_ADD", {}, FALSE, TRUE, 1)
        static == {"TREE_F_LOCALLY_STATIC", "TREE_F_GLOBALLY_STATIC"}
        call(d, ty, ps) ==
            [kind |-> "T_FCALL", loc |-> Loc("c.vhd", 4, 2), ident |-> "f",
             ref |-> d, type |-> ty, flags |-> static, params |-> ps]
    IN { call(add, ScalarType, <<PosParam(0, call(d, ty, <<PosParam(0, Literal(1))>>))>>) :
           d \in {FuncDecl("S_ADD", {}, FALSE, FALSE, 1),
                  FuncDecl("S_FOREIGN", {}, FALSE, TRUE, 1)},
           ty \in {ScalarType, ArrayType} }

ProcDecl(nports) ==
    [kind |-> "T_PROC_DECL", ident |-> "p", ports |-> SubSeq(PortPool, 1, nports)]

PCalls ==
    UNION { { [kind |-> "T_PCALL", loc |-> Loc("c.vhd", 5, 2), ident |-> "p",
               ref |-> ProcDecl(n), params |-> ps] :
              ps \in {q \in ParamLists(ProcDecl(n)) : LegalParams(ProcDecl(n), q)} } :
            n \in 0..MaxPorts }

\* The if statements: the condition is a boolean literal, a literal of
\* another enumeration type, a signal or an integer.
StmtPool == { [kind |-> "T_RETURN", ident |-> "s1"], [kind |-> "T_WAIT", ident |-> "s2"] }

Conds == { RefTo(EnumLit("true", 1, "BOOLEAN")), RefTo(EnumLit("false", 0, "BOOLEAN")),
           RefTo(EnumLit("'1'", 1, "BIT")), RefTo(SignalDecl), Literal(1) }

Ifs ==
    { [kind |-> "T_IF", loc |-> Loc("c.vhd", 6, 2), ident |-> "i", value |-> c,
       stmts |-> ss, else_stmts |-> es] :
        c \in Conds, ss \in SeqsUpTo(StmtPool, MaxStmts), es \in SeqsUpTo(StmtPool, MaxStmts) }

\* The case statements: the scrutinee is an integer literal or a signal;
\* the arms are named, range and others arms in any order, with or without
\* a value.
ArmPool ==
    { CaseArm("A_NAMED", Literal(1), NoTree, NoTree, [kind |-> "T_RETURN", ident |-> "s1"]),
      CaseArm("A_NAMED", Literal(2), NoTree, NoTree, NoTree),
      CaseArm("A_RANGE", NoTree, Literal(1), Literal(2), [kind |-> "T_WAIT", ident |-> "s2"]),
      CaseArm("A_OTHERS", NoTree, NoTree, NoTree, [kind |-> "T_NULL", ident |-> "s3"]),
      CaseArm("A_OTHERS", NoTree, NoTree, NoTree, NoTree) }

CaseStmts ==
    { [kind |-> "T_CASE", loc |-> Loc("c.vhd", 7, 2), ident |-> "c", value |-> v,
       assocs |-> as] :
        v \in {Literal(1), Literal(2), Literal(3), RefTo(SignalDecl)},
        as \in SeqsUpTo(ArmPool, MaxArms) }

\* The expressions a statement may read: a literal, signal s, variable v,
\* the array signal a as a whole, indexed by a literal, indexed by signal s
\* and sliced, the array variable m indexed by signal s, a call g(r) and
\* s'event.
GuardSignal == [kind |-> "T_IMPLICIT_SIGNAL", ident |-> "GUARD"]

ExprPool ==
    { Literal(1), RefTo(SignalDecl), RefTo(Var("v")), RefTo(Sig("a")),
      ArrayRef(RefTo(Sig("a")), Literal(1)),
      ArrayRef(RefTo(Sig("a")), RefTo(SignalDecl)),
      ArrayRef(RefTo(Var("m")), RefTo(SignalDecl)),
      ArraySlice(RefTo(Sig("a")), Literal(1), Literal(2)),
      [kind |-> "T_FCALL",
       ref |-> [kind |-> "T_FUNC_DECL", ident |-> "g",
                ports |-> <<[kind |-> "T_PORT_DECL", ident |-> "x", mode |-> "PORT_IN"]>>],
       params |-> <<PosParam(0, RefTo(Sig("r")))>>],
      [kind |-> "T_ATTR_REF", subkind |-> "ATTR_EVENT", name |-> RefTo(SignalDecl),
       params |-> <<>>] }

\* The concurrent signal assignments to signal r, guarded or not.
CAssigns ==
    { [kind |-> "T_CASSIGN", loc |-> Loc("c.vhd", 8, 2), ident |-> "ca",
       guard |-> g, target |-> RefTo(Sig("r")), conds |-> cs] :
        g \in {NoTree, RefTo(GuardSignal)},
        cs \in SeqsUpTo({Cond(v, <<Waveform(e)>>) :
                            v \in {NoTree, RefTo(SignalDecl), RefTo(GuardSignal)},
                            e \in ExprPool}, MaxConds) \ {<<>>} }

\* The selected signal assignments.
SelectArms ==
    { CaseArm("A_NAMED", Literal(1), NoTree, NoTree,
              [kind |-> "T_SIGNAL_ASSIGN",
               waveforms |-> <<Waveform(ArrayRef(RefTo(Sig("a")), Literal(1)))>>]),
      CaseArm("A_NAMED", RefTo(SignalDecl), NoTree, NoTree,
              [kind |-> "T_SIGNAL_ASSIGN", waveforms |-> <<Waveform(RefTo(Sig("a")))>>]),
      CaseArm("A_OTHERS", NoTree, NoTree, NoTree,
              [kind |-> "T_SIGNAL_ASSIGN", waveforms |-> <<Waveform(Literal(1))>>]) }

Selects ==
    { [kind |-> "T_SELECT", loc |-> Loc("c.vhd", 9, 2), ident |-> "se",
       guard |-> g, value |-> v, assocs |-> as] :
        g \in {NoTree, RefTo(GuardSignal)},
        v \in {RefTo(SignalDecl), Literal(1)},
        as \in SeqsUpTo(SelectArms, MaxArms) }

\* The concurrent procedure calls of q(x : in; y : out; z : inout := s).
ModePorts ==
    << [kind |-> "T_PORT_DECL", ident |-> "x", mode |-> "PORT_IN", value |-> NoTree],
       [kind |-> "T_PORT_DECL", ident |-> "y", mode |-> "PORT_OUT", value |-> NoTree],
       [kind |-> "T_PORT_DECL", ident |-> "z", mode |-> "PORT_INOUT",
        value |-> RefTo(SignalDecl)] >>

CPCalls ==
    { [kind |-> "T_CPCALL", loc |-> Loc("c.vhd", 10, 2), ident |-> "cp", ident2 |-> "q",
       ref |-> [kind |-> "T_PROC_DECL", ident |-> "q", ports |-> ModePorts],
       params |-> ps] :
        ps \in { <<PosParam(0, RefTo(SignalDecl)), PosParam(1, RefTo(Sig("r"))),
                   PosParam(2, RefTo(Sig("a")))>>,
                 <<PosParam(0, RefTo(SignalDecl)), NamedParam("z", RefTo(SignalDecl)),
                   NamedParam("y", RefTo(Sig("r")))>>,
                 <<NamedParam("z", Open), NamedParam("y", RefTo(Sig("r"))),
                   NamedParam("x", ArrayRef(RefTo(Sig("a")), Literal(1)))>>,
                 <<PosParam(0, RefTo(SignalDecl)), NamedParam("y", RefTo(Sig("r")))>>,
                 <<PosParam(0, RefTo(SignalDecl))>> } }

\* The concurrent assertions.
CAsserts ==
    { [kind |-> "T_CASSERT", loc |-> Loc("c.vhd", 11, 2), ident |-> "as", flags |-> fl,
       value |-> v, severity |-> Literal(2), message |-> m] :
        fl \in {{}, {"TREE_F_POSTPONED"}},
        v \in {RefTo(EnumLit("true", 1, "BOOLEAN")), RefTo(EnumLit("false", 0, "BOOLEAN"))}
              \cup ExprPool,
        m \in {NoTree, Literal(0)} }

\* The statements of a process body: assignments to variable v and to an
\* element of array variable m, a signal assignment to an element of array
\* signal a, an if, a call of a procedure body, and a wait.
VarAssign(target, value) ==
    [kind |-> "T_VAR_ASSIGN", ident |-> "va", target |-> target, value |-> value]

BodyStmts ==
    { VarAssign(tg, e) :
        tg \in {RefTo(Var("v")), ArrayRef(RefTo(Var("m")), RefTo(Sig("r")))},
        e \in ExprPool }
    \cup { [kind |-> "T_SIGNAL_ASSIGN", loc |-> NoLoc, ident |-> "sa",
            target |-> ArrayRef(RefTo(Sig("a")), RefTo(Sig("r"))),
            waveforms |-> <<Waveform(RefTo(SignalDecl))>>],
           [kind |-> "T_IF", loc |-> NoLoc, ident |-> "i", value |-> RefTo(SignalDecl),
            stmts |-> <<VarAssign(RefTo(Var("v")), RefTo(Sig("r")))>>,
            else_stmts |-> <<VarAssign(RefTo(Var("v")), RefTo(Sig("a")))>>],
           [kind |-> "T_PCALL", loc |-> NoLoc, ident |-> "q",
            ref |-> [kind |-> "T_PROC_BODY", ident |-> "q",
                     ports |-> SubSeq(ModePorts, 1, 1),
                     stmts |-> <<VarAssign(RefTo(Var("v")), RefTo(Sig("r")))>>],
            params |-> <<PosParam(0, RefTo(SignalDecl))>>],
           Wait("w", {}, <<>>) }

\* The processes: sensitive to all, with a sensitivity list, or without,
\* postponed or not.
Processes ==
    { [kind |-> "T_PROCESS", loc |-> Loc("c.vhd", 12, 2), ident |-> "p", flags |-> {},
       decls |-> <<>>, triggers |-> <<[kind |-> "T_ALL"]>>, stmts |-> ss] :
        ss \in SeqsUpTo(BodyStmts, MaxStmts) }
    \cup
    { [kind |-> "T_PROCESS", loc |-> Loc("c.vhd", 12, 2), ident |-> "p", flags |-> fl,
       decls |-> <<>>, triggers |-> tr, stmts |-> ss] :
        fl \in {{}, {"TREE_F_POSTPONED"}},
        tr \in {<<>>, <<RefTo(SignalDecl)>>, <<RefTo(SignalDecl), RefTo(Sig("r"))>>},
        ss \in SeqsUpTo({Wait("w", {}, <<>>), VarAssign(RefTo(Var("v")), Literal(1))},
                        MaxStmts) }

\* The wait statements: with or without a condition and a sensitivity list.
Waits ==
    { [Wait("w", {}, tr) EXCEPT !.value = v] :
        tr \in {<<>>, <<RefTo(Sig("r"))>>},
        v \in {NoTree} \cup ExprPool }

\* A name: a reference to a declaration, with the flags sem gave it.
Name(decl, flags) ==
    [kind |-> "T_REF", ident |-> decl.ident, ref |-> decl, flags |-> flags]

\* hash_get and hash_put on ctx->generics: a sequence of key and value, a
\* NULL table and a table without keys are both <<>>.
hash_get(h, k) ==
    IF \E i \in 1..Len(h) : h[i].key = k
    THEN h[CHOOSE i \in 1..Len(h) : h[i].key = k].value
    ELSE NoTree

hash_put(h, k, v) ==
    IF \E i \in 1..Len(h) : h[i].key = k
    THEN [i \in 1..Len(h) |-> IF h[i].key = k THEN [key |-> k, value |-> v] ELSE h[i]]
    ELSE Append(h, [key |-> k, value |-> v])

\* simp_ctx_t, with the number of names ident_uniq has made and whether the
\* pass has aborted.
UnitCtx(pass) ==
    [exec |-> pass.exec, eval_mask |-> pass.eval_mask, imp_signals |-> <<>>,
     generics |-> <<>>, nuniq |-> 0, abort |-> FALSE]

\* simp_ref(t, ctx): c = [t, abort].
simp_ref(t, ctx) ==
    IF "TREE_F_FORMAL_NAME" \in t.flags THEN [t |-> t, abort |-> FALSE]
    ELSE LET decl == t.ref
         IN CASE decl.kind = "T_CONST_DECL" ->
                   IF ~type_is_scalar(decl.type) THEN [t |-> t, abort |-> FALSE]
                   ELSE IF HasValue(decl)
                   THEN IF decl.value.kind = "T_LITERAL"
                           \/ (decl.value.kind = "T_REF"
                               /\ decl.value.ref.kind = "T_ENUM_LIT")
                        THEN [t |-> decl.value, abort |-> FALSE]
                        ELSE [t |-> t, abort |-> FALSE]
                   ELSE [t |-> t, abort |-> FALSE]
              [] decl.kind = "T_UNIT_DECL" -> [t |-> decl.value, abort |-> FALSE]
              [] decl.kind = "T_PORT_DECL" ->
                   LET map == hash_get(ctx.generics, decl)
                   IN IF map = NoTree THEN [t |-> t, abort |-> FALSE]
                      ELSE IF map.kind \in {"T_LITERAL", "T_AGGREGATE", "T_ARRAY_SLICE",
                                            "T_ARRAY_REF", "T_FCALL", "T_RECORD_REF",
                                            "T_OPEN", "T_QUALIFIED", "T_REF"}
                      THEN [t |-> map, abort |-> FALSE]
                      ELSE [t |-> t, abort |-> TRUE]
              [] OTHER -> [t |-> t, abort |-> FALSE]

\* The references simp_tree is given while a generic map is active: to a
\* generic in or out of the map, plain or as a formal name, the map giving
\* a literal, a name, an open, a function call or a type conversion.
RefGeneric ==
    [kind |-> "T_PORT_DECL", ident |-> "N", class |-> "C_CONSTANT",
     type |-> ScalarType, value |-> NoTree]

RefMapValues ==
    { Literal(16), Name(Var("x"), {}), [kind |-> "T_OPEN"],
      [kind |-> "T_FCALL", ident |-> "f", ref |-> [kind |-> "T_FUNC_DECL", ident |-> "f"],
       params |-> <<>>, flags |-> {}],
      [kind |-> "T_TYPE_CONV", value |-> Name(Var("x"), {})] }

RefTables == {<<>>} \cup { <<[key |-> RefGeneric, value |-> v]>> : v \in RefMapValues }

Refs == { Name(RefGeneric, fl) : fl \in {{}, {"TREE_F_FORMAL_NAME"}} }

Generic(name, value) ==
    [kind |-> "T_PORT_DECL", ident |-> name, class |-> "C_CONSTANT",
     type |-> ScalarType, value |-> value]

NamedMap(g, v) ==
    [subkind |-> "P_NAMED", pos |-> 0, name |-> Name(g, {"TREE_F_FORMAL_NAME"}),
     value |-> v]

GenericBlock(ident, generics, genmaps, stmts) ==
    [kind |-> "T_BLOCK", loc |-> Loc("u.vhd", 20, 2), ident |-> ident,
     generics |-> generics, genmaps |-> genmaps, params |-> <<>>, ports |-> <<>>,
     decls |-> <<>>, stmts |-> stmts]

\* A map that keeps the elements given by position only.
genmap_rest_none(t, unit, last_pos, i) == [maps |-> <<>>, abort |-> FALSE]

\* The second loop of simp_generic_map(t, unit): an element for each generic
\* from last_pos on; c = [maps, abort], abort for fatal_at, fatal_trace or
\* the assertion.
RECURSIVE genmap_rest(_, _, _, _)
genmap_rest(t, unit, last_pos, i) ==
    IF i > Len(unit.generics) THEN [maps |-> <<>>, abort |-> FALSE]
    ELSE LET g == unit.generics[i]
             later == (last_pos + 1)..Len(t.genmaps)
             unsupported == \E j \in later : t.genmaps[j].name.kind # "T_REF"
             named == IF unsupported THEN {}
                      ELSE {j \in later : t.genmaps[j].name.ident = g.ident}
             value == IF named # {}
                      THEN t.genmaps[CHOOSE j \in named : \A k \in named : k <= j].value
                      ELSE IF HasValue(g) THEN g.value
                      ELSE IF t.kind = "T_BINDING"
                      THEN [kind |-> "T_OPEN", loc |-> t.loc, type |-> g.type]
                      ELSE NoTree
             rest == genmap_rest(t, unit, last_pos, i + 1)
         IN IF unsupported \/ Cardinality(named) > 1 \/ value = NoTree
            THEN [maps |-> <<>>, abort |-> TRUE]
            ELSE [maps |-> <<PosParam(i - 1, value)>> \o rest.maps, abort |-> rest.abort]

\* simp_generic_map(t, unit): c = [t, abort].
simp_generic_map(t, unit0) ==
    LET unit == IF unit0.kind \in {"T_CONFIGURATION", "T_ARCH"} THEN unit0.primary
                ELSE unit0
        ngenmaps == Len(t.genmaps)
        ngenerics == Len(unit.generics)
        npos == {n \in 0..ngenmaps : \A j \in 1..n : t.genmaps[j].subkind = "P_POS"}
        last_pos == CHOOSE n \in npos : \A k \in npos : k <= n
    IN IF last_pos = ngenmaps /\ ngenmaps = ngenerics THEN [t |-> t, abort |-> FALSE]
       ELSE IF t.kind \notin {"T_INSTANCE", "T_BINDING", "T_BLOCK"}
       THEN [t |-> NoTree, abort |-> TRUE]
       ELSE LET rest == genmap_rest(t, unit, last_pos, last_pos + 1)
                genmaps == SubSeq(t.genmaps, 1, last_pos) \o rest.maps
                new == CASE t.kind = "T_INSTANCE" ->
                              [kind |-> t.kind, loc |-> t.loc, ident |-> t.ident,
                               genmaps |-> genmaps, params |-> t.params,
                               spec |-> t.spec, ref |-> t.ref, class |-> t.class,
                               ident2 |-> t.ident2]
                         [] t.kind = "T_BINDING" ->
                              [kind |-> t.kind, loc |-> t.loc, ident |-> t.ident,
                               genmaps |-> genmaps, params |-> t.params,
                               ref |-> t.ref, class |-> t.class, ident2 |-> t.ident2]
                         [] t.kind = "T_BLOCK" ->
                              [kind |-> t.kind, loc |-> t.loc, ident |-> t.ident,
                               generics |-> SubSeq(t.generics, 1, ngenerics),
                               genmaps |-> genmaps, params |-> t.params,
                               ports |-> t.ports, decls |-> t.decls, stmts |-> t.stmts]
            IN [t |-> new, abort |-> rest.abort]

\* A formal that names an element of generic g.
ElementMap(g, v) ==
    [subkind |-> "P_NAMED", pos |-> 0,
     name |-> [kind |-> "T_ARRAY_REF", value |-> Name(g, {"TREE_F_FORMAL_NAME"}),
               params |-> <<PosParam(0, Literal(0))>>],
     value |-> v]

\* The generics of a unit: N with or without default, and K with default.
GenericLists ==
    UNION { {<<Generic("N", d)>>, <<Generic("N", d), Generic("K", Literal(2))>>} :
              d \in {NoTree, Literal(8)} }

\* The generic maps for the generics gs: positional elements first, each
\* generic once at most; unbound tells whether a generic without default may
\* stay without value, elements whether a formal may name an element.
MapLists(gs, unbound, elements) ==
    LET pool == UNION { {PosParam(i - 1, Literal(16)), NamedMap(gs[i], Literal(16 + i))}
                        \cup (IF elements THEN {ElementMap(gs[i], Literal(1))} ELSE {}) :
                        i \in 1..Len(gs) }
        formal(ms, j) ==
            IF ms[j].subkind = "P_POS" THEN j
            ELSE CHOOSE i \in 1..Len(gs) :
                    gs[i].ident = (IF ms[j].name.kind = "T_REF" THEN ms[j].name.ident
                                   ELSE ms[j].name.value.ident)
    IN { ms \in SeqsUpTo(pool, Len(gs)) :
           /\ \A j \in 1..Len(ms) : ms[j].subkind = "P_POS" =>
                 /\ ms[j].pos = j - 1
                 /\ \A k \in 1..(j - 1) : ms[k].subkind = "P_POS"
           /\ \A j, k \in 1..Len(ms) : formal(ms, j) = formal(ms, k) => j = k
           /\ unbound \/ \A i \in 1..Len(gs) :
                 HasValue(gs[i]) \/ \E j \in 1..Len(ms) : formal(ms, j) = i }

\* The entity an instance or a binding refers to, itself or by one of its
\* architectures.
Entity(gs) == [kind |-> "T_ENTITY", ident |-> "e", generics |-> gs]

ArchOf(e) == [kind |-> "T_ARCH", ident |-> "rtl", primary |-> e]

\* The blocks, instances and bindings simp_tree is given.
MapNodes ==
    UNION {
      { GenericBlock("b", gs, ms, <<[kind |-> "T_WAIT", ident |-> "s2"]>>) :
          ms \in MapLists(gs, FALSE, FALSE) }
      \cup
      { [kind |-> "T_INSTANCE", loc |-> Loc("u.vhd", 30, 2), ident |-> "u1",
         genmaps |-> ms, params |-> <<PosParam(0, RefTo(SignalDecl))>>, spec |-> sp,
         ref |-> u, class |-> "C_ENTITY", ident2 |-> "rtl"] :
          ms \in MapLists(gs, FALSE, TRUE), u \in {Entity(gs), ArchOf(Entity(gs))},
          sp \in {NoTree, [kind |-> "T_SPEC", ident |-> "u1"]} }
      \cup
      { [kind |-> "T_BINDING", loc |-> Loc("u.vhd", 31, 2), ident |-> "e",
         genmaps |-> ms, params |-> <<>>, ref |-> Entity(gs), class |-> "C_ENTITY",
         ident2 |-> "rtl"] :
          ms \in MapLists(gs, TRUE, FALSE) } : gs \in GenericLists }

SimpInputs ==
    Calls \cup PCalls \cup Ifs \cup CaseStmts \cup CAssigns \cup Selects \cup CPCalls
    \cup CAsserts \cup Processes \cup Waits \cup Refs \cup NestedCalls \cup MapNodes

NoSimp ==
    [t |-> NoTree, ctx |-> LocalCtx, done |-> FALSE, out |-> NoTree, generics |-> <<>>,
     flags |-> {}, warned |-> <<>>]


\* ------------------------------------------------------------ the operations

Pre == [trees |-> trees, types |-> types, all_trees |-> all_trees]

NoPre == [trees |-> <<>>, types |-> <<>>, all_trees |-> <<>>]

\* The callback that rewrites nothing.
NoFn == [del |-> {}, rep |-> NoRep]

Last(op, root, res, calls, freed, pre) ==
    [op |-> op, root |-> root, res |-> res, calls |-> calls, freed |-> freed,
     pre |-> pre, fn |-> NoFn]

\* No context is open.
NoCtx == [open |-> FALSE, generation |-> 0, n_trees |-> 0]

NoRdCtx == [open |-> FALSE, pos |-> 0, store |-> <<>>, n_read |-> 0]

\* The file: its tokens, the trees tree_write was called with, and whether
\* the writer has finished.
NoFile == [toks |-> <<>>, roots |-> <<>>, closed |-> FALSE]

\* ------------------------------------------------- locations and diagnostics

\* diag.c: the file registry, the location contexts and the stream they
\* write and read, the error counter and the consumer.  File names are
\* sequences of characters.

LOC_MAGIC == 61455

FILE_INVALID == 65535

LINE_INVALID == 1048575

\* A pointer that is NULL, for a name.
NoName == <<"NULL">>

\* The names files are registered with: "a" after some '/'.
NamePool == { [i \in 1..n |-> IF i = n THEN "a" ELSE "/"] : n \in 1..MaxNameLen }

\* loc_file_ref: the copy of name without a '/' that another '/' follows.
RECURSIVE strip_slashes(_, _)
strip_slashes(name, i) ==
    IF i > Len(name) THEN <<>>
    ELSE IF name[i] # "/" \/ i = Len(name) \/ name[i + 1] # "/"
    THEN <<name[i]>> \o strip_slashes(name, i + 1)
    ELSE strip_slashes(name, i + 1)

\* A copy of name as it is.
keep_slashes(name, i) == name

\* strcmp(a, b) == 0
streq(a, b) == a = b

\* The index in loc_files of the first, of the last entry named name, 0 if
\* there is none.
first_named(files, name) ==
    LET is == {i \in 1..Len(files) : streq(files[i].name_str, name)}
    IN IF is = {} THEN 0 ELSE CHOOSE i \in is : \A j \in is : i <= j

last_named(files, name) ==
    LET is == {i \in 1..Len(files) : streq(files[i].name_str, name)}
    IN IF is = {} THEN 0 ELSE CHOOSE i \in is : \A j \in is : j <= i

\* loc_t
LocOf(first_line, first_column, line_delta, column_delta, file_ref) ==
    [first_line |-> first_line, first_column |-> first_column,
     line_delta |-> line_delta, column_delta |-> column_delta, file_ref |-> file_ref]

\* The bits without those of first_column.
merge_loc_no_column(loc) ==
    <<loc.first_line \div 16, (loc.first_line % 16) * 4096,
      loc.line_delta * 256 + loc.column_delta, loc.file_ref>>

\* The 64 bits loc_write makes of a location, as four words of 16 bits from
\* the highest to the lowest: first_line << 44, first_column << 32,
\* line_delta << 24, column_delta << 16, file_ref.
merge_loc(loc) ==
    <<loc.first_line \div 16,
      (loc.first_line % 16) * 4096 + loc.first_column,
      loc.line_delta * 256 + loc.column_delta,
      loc.file_ref>>

\* The fields loc_read takes of the 64 bits: (merged >> 44) & 0xfffff,
\* (merged >> 32) & 0xfff, (merged >> 24) & 0xff, (merged >> 16) & 0xff.
split_loc(merged, new_ref) ==
    LocOf(merged[1] * 16 + merged[2] \div 4096, merged[2] % 4096,
          merged[3] \div 256, merged[3] % 256, new_ref)

\* The index loc_write writes first: magic, the number of files, each name
\* with its length, the terminator counted and written.
RECURSIVE index_tokens(_, _)
index_tokens(files, i) ==
    IF i > Len(files) THEN <<>>
    ELSE <<[tag |-> "uint", v |-> Len(files[i].name_str) + 1],
           [tag |-> "raw", v |-> Append(files[i].name_str, "NUL")]>>
         \o index_tokens(files, i + 1)

\* The string in a buffer: the characters before the first terminator.
RECURSIVE c_string(_)
c_string(buf) ==
    IF buf = <<>> \/ Head(buf) = "NUL" THEN <<>>
    ELSE <<Head(buf)>> \o c_string(Tail(buf))

NoWrCtx == [open |-> FALSE, have_index |-> FALSE]

NoLocRdCtx ==
    [open |-> FALSE, have_index |-> FALSE, n_files |-> 0, file_map |-> <<>>,
     ref_map |-> <<>>, pos |-> 1]

\* What is kept of the last diag_femit: the diagnostic, whether a consumer
\* was installed, the counter and the stream before it.
NoEmit == [d |-> 0, consumer |-> FALSE, n_errors |-> 0, stream |-> <<>>, counts |-> FALSE]

NoDiag ==
    [loc_files |-> <<>>, wr |-> NoWrCtx, rd |-> NoLocRdCtx, fbuf |-> <<>>,
     written |-> <<>>, readback |-> <<>>, res |-> NoName, arg |-> NoName,
     n_errors |-> 0, consumer |-> FALSE, stream |-> <<>>, consumed |-> <<>>,
     error_limit |-> 0, unit_test |-> FALSE, style |-> "MESSAGE_FULL",
     diags |-> <<>>, counted |-> 0, emit |-> NoEmit]

OtherVars ==
    <<trees, types, all_trees, next_generation, wctx, rctx, simp, file, held, last,
      nops>>

\* loc_file_ref(name, linebuf)
loc_file_ref(name) ==
    /\ ~crashed
    /\ LET files == diag.loc_files
           found == first_named(files, name)
       IN IF name = NoName
          THEN diag' = [diag EXCEPT !.res = FILE_INVALID, !.arg = name]
          ELSE IF found # 0
          THEN diag' = [diag EXCEPT !.res = files[found].ref, !.arg = name]
          ELSE /\ Len(files) < MaxFiles
               /\ diag' = [diag EXCEPT
                             !.loc_files = Append(@, [ref |-> Len(files),
                                                      name_str |-> strip_slashes(name, 1)]),
                             !.res = Len(files), !.arg = name]
    /\ UNCHANGED <<OtherVars, crashed>>

\* loc_write_begin(f), f a new file
loc_write_begin ==
    /\ ~crashed
    /\ ~diag.wr.open /\ ~diag.rd.open
    /\ diag' = [diag EXCEPT !.res = NoName, !.arg = NoName,
                            !.wr = [open |-> TRUE, have_index |-> FALSE],
                            !.fbuf = <<>>, !.written = <<>>, !.readback = <<>>]
    /\ UNCHANGED <<OtherVars, crashed>>

\* loc_write(loc, ctx); written keeps each location with the name of its
\* file and whether the file is in the index.
loc_write(loc) ==
    /\ ~crashed
    /\ diag.wr.open /\ Len(diag.written) < MaxLocs
    /\ loc.file_ref = FILE_INVALID \/ loc.file_ref < Len(diag.loc_files)
    /\ LET files == diag.loc_files
           index == IF diag.wr.have_index THEN <<>>
                    ELSE <<[tag |-> "u16", v |-> LOC_MAGIC],
                           [tag |-> "uint", v |-> Len(files)]>>
                         \o index_tokens(files, 1)
           indexed == IF diag.wr.have_index THEN diag.fbuf[2].v ELSE Len(files)
       IN diag' = [diag EXCEPT !.res = NoName, !.arg = NoName,
                     !.wr.have_index = TRUE,
                     !.fbuf = @ \o index \o <<[tag |-> "u64", v |-> merge_loc(loc)]>>,
                     !.written = Append(@,
                         [loc |-> loc,
                          name |-> IF loc.file_ref = FILE_INVALID THEN NoName
                                   ELSE files[loc.file_ref + 1].name_str,
                          indexed |-> loc.file_ref = FILE_INVALID
                                      \/ loc.file_ref < indexed])]
    /\ UNCHANGED <<OtherVars, crashed>>

\* loc_write_end(ctx)
loc_write_end ==
    /\ ~crashed
    /\ diag.wr.open
    /\ diag' = [diag EXCEPT !.res = NoName, !.arg = NoName, !.wr = NoWrCtx]
    /\ UNCHANGED <<OtherVars, crashed>>

\* The process ends and another one starts, with no file registered; the
\* file written stays.
new_process ==
    /\ ~crashed
    /\ ~diag.wr.open /\ ~diag.rd.open /\ diag.fbuf # <<>> /\ diag.loc_files # <<>>
    /\ diag' = [diag EXCEPT !.res = NoName, !.arg = NoName, !.loc_files = <<>>,
                            !.readback = <<>>]
    /\ UNCHANGED <<OtherVars, crashed>>

\* loc_read_begin(f), f the file written
loc_read_begin ==
    /\ ~crashed
    /\ ~diag.wr.open /\ ~diag.rd.open /\ diag.fbuf # <<>>
    /\ diag' = [diag EXCEPT !.res = NoName, !.arg = NoName, !.readback = <<>>,
                            !.rd = [NoLocRdCtx EXCEPT !.open = TRUE]]
    /\ UNCHANGED <<OtherVars, crashed>>

\* The index as loc_read reads it: c = [ok, rd].
read_index(rd, fbuf) ==
    IF rd.have_index THEN [ok |-> TRUE, rd |-> rd]
    ELSE IF fbuf[rd.pos].v # LOC_MAGIC THEN [ok |-> FALSE, rd |-> rd]
    ELSE LET n == fbuf[rd.pos + 1].v
         IN [ok |-> TRUE,
             rd |-> [rd EXCEPT !.have_index = TRUE, !.n_files = n,
                               !.file_map = [i \in 1..n |->
                                   SubSeq(fbuf[rd.pos + 1 + 2 * i].v, 1,
                                          fbuf[rd.pos + 2 * i].v) \o <<"NUL">>],
                               !.ref_map = [i \in 1..n |-> FILE_INVALID],
                               !.pos = rd.pos + 2 + 2 * n]]

\* loc_read(loc, ctx)
loc_read ==
    /\ ~crashed
    /\ diag.rd.open /\ diag.rd.pos <= Len(diag.fbuf)
    /\ LET ix == read_index(diag.rd, diag.fbuf)
           rd == ix.rd
           merged == diag.fbuf[rd.pos].v
           old_ref == merged[4]
           files == diag.loc_files
           name == c_string(rd.file_map[old_ref + 1])
           found == last_named(files, name)
           ref1 == IF rd.ref_map[old_ref + 1] # FILE_INVALID THEN rd.ref_map[old_ref + 1]
                   ELSE IF found # 0 THEN files[found].ref
                   ELSE FILE_INVALID
           push == ref1 = FILE_INVALID
           new_ref == IF push THEN Len(files) ELSE ref1
       IN IF ~ix.ok \/ (old_ref # FILE_INVALID /\ old_ref >= rd.n_files)
          THEN /\ crashed' = TRUE
               /\ diag' = [diag EXCEPT !.res = NoName, !.arg = NoName]
          ELSE IF old_ref = FILE_INVALID
          THEN /\ crashed' = FALSE
               /\ diag' = [diag EXCEPT !.res = NoName, !.arg = NoName,
                             !.rd = [rd EXCEPT !.pos = @ + 1],
                             !.readback = Append(@, split_loc(merged, FILE_INVALID))]
          ELSE /\ crashed' = FALSE
               /\ diag' = [diag EXCEPT !.res = NoName, !.arg = NoName,
                             !.rd = [rd EXCEPT !.pos = @ + 1,
                                               !.ref_map[old_ref + 1] = new_ref,
                                               !.file_map[old_ref + 1] =
                                                   IF push THEN NoName ELSE @],
                             !.loc_files = IF push
                                           THEN Append(@, [ref |-> Len(files),
                                                           name_str |-> name])
                                           ELSE @,
                             !.readback = Append(@, split_loc(merged, new_ref))]
    /\ UNCHANGED OtherVars

\* loc_read_end(ctx)
loc_read_end ==
    /\ ~crashed
    /\ diag.rd.open
    /\ diag' = [diag EXCEPT !.res = NoName, !.arg = NoName, !.rd = NoLocRdCtx]
    /\ UNCHANGED <<OtherVars, crashed>>

\* The location written for a file_ref: lines and columns at their ends and
\* between.
LocPool(r) ==
    IF r = FILE_INVALID THEN {LocOf(LINE_INVALID, 0, 0, 0, r)}
    ELSE IF r % 2 = 0 THEN {LocOf(1, 4095, 0, 255, r)}
    ELSE {LocOf(74565, 7, 255, 3, r)}

InitLoc ==
    /\ trees = <<>> /\ types = <<>> /\ all_trees = <<>> /\ held = {}
    /\ next_generation = 1
    /\ wctx = NoCtx /\ rctx = NoRdCtx /\ file = NoFile
    /\ last = Last("init", NULL, NULL, <<>>, {}, NoPre)
    /\ nops = 0 /\ simp = NoSimp
    /\ crashed = FALSE
    /\ diag = NoDiag

NextLoc ==
    \/ \E name \in NamePool \cup {NoName} : loc_file_ref(name)
    \/ loc_write_begin
    \/ \E r \in (0..(MaxFiles - 1)) \cup {FILE_INVALID} : \E loc \in LocPool(r) : loc_write(loc)
    \/ loc_write_end
    \/ new_process
    \/ loc_read_begin
    \/ loc_read
    \/ loc_read_end

SpecLoc == InitLoc /\ [][NextLoc]_vars

\* ---- diagnostics emitted

\* diag_level_t, in the order of its enumeration.
Levels == <<"DIAG_NOTE", "DIAG_WARN", "DIAG_ERROR", "DIAG_FATAL">>

level_rank(level) == CHOOSE i \in 1..Len(Levels) : Levels[i] = level

\* A count of the diagnostics of level error only.
counts_error_only(level, unit_test) == level = "DIAG_ERROR"

\* d->level >= DIAG_ERROR || opt_get_int(OPT_UNIT_TEST)
counts_error(level, unit_test) ==
    level_rank(level) >= level_rank("DIAG_ERROR") \/ unit_test

\* LOC_INVALID, which also stands for a null loc argument.
LOC_INVALID == LocOf(LINE_INVALID, 4095, 255, 255, FILE_INVALID)

loc_invalid_p(loc) == loc.first_line = LINE_INVALID \/ loc.file_ref = FILE_INVALID

loc_eq(a, b) ==
    /\ a.first_line = b.first_line /\ a.first_column = b.first_column
    /\ a.line_delta = b.line_delta /\ a.column_delta = b.column_delta
    /\ a.file_ref = b.file_ref

\* diag_hint_t; added is the rank of the hint among the hints added to its
\* diagnostic, which the program does not keep.
Hint(loc, text, priority, added) ==
    [loc |-> loc, text |-> text, priority |-> priority, added |-> added]

\* A comparison that ends with the greater priority first.
diag_compar_greater_first(a, b) ==
    IF a.loc.file_ref # b.loc.file_ref THEN a.loc.file_ref - b.loc.file_ref
    ELSE IF a.loc.first_line # b.loc.first_line
    THEN a.loc.first_line - b.loc.first_line
    ELSE b.priority - a.priority

\* diag_compar(_a, _b)
diag_compar(a, b) ==
    IF a.loc.file_ref # b.loc.file_ref THEN a.loc.file_ref - b.loc.file_ref
    ELSE IF a.loc.first_line # b.loc.first_line
    THEN a.loc.first_line - b.loc.first_line
    ELSE a.priority - b.priority

\* qsort(d->hints.items, d->hints.count, sizeof(diag_hint_t), diag_compar):
\* the priorities of the hints of a diagnostic differ, so one order is sorted.
qsort(items) ==
    LET idx == 1..Len(items)
        orders == {q \in [idx -> idx] :
                      /\ \A i, j \in idx : q[i] = q[j] => i = j
                      /\ \A i, j \in idx :
                            i < j => diag_compar(items[q[i]], items[q[j]]) <= 0}
        q == CHOOSE o \in orders : TRUE
    IN [i \in idx |-> items[q[i]]]

\* The hints of a diagnostic after diag_emit_hints: sorted in place unless
\* the first hint has no file.
diag_emit_hints(hints) ==
    IF hints[1].loc.file_ref = FILE_INVALID THEN hints ELSE qsort(hints)

\* A trace is rendered whatever the first hint is.
trace_always(hints, trace) == trace

\* diag_emit_trace(d, f): the entries rendered, none when the one entry of
\* the trace has the file or the line of the first hint.
diag_emit_trace(hints, trace) ==
    IF /\ Len(trace) = 1 /\ Len(hints) > 0
       /\ \/ trace[1].loc.file_ref = hints[1].loc.file_ref
          \/ trace[1].loc.first_line = hints[1].loc.first_line
    THEN <<>> ELSE trace

\* The word diag_femit writes for the level in the compact style.
level_word(level) ==
    CASE level = "DIAG_NOTE" -> "note: "
      [] level = "DIAG_WARN" -> "warning: "
      [] level = "DIAG_ERROR" -> "error: "
      [] level = "DIAG_FATAL" -> "fatal: "

\* The line of the compact style: the file, line and column of the first
\* hint if it is valid, the level word, the message of diagnostic d.
compact_line(dg, d) ==
    LET loc == dg.hints[1].loc
    IN [style |-> "MESSAGE_COMPACT", d |-> d,
        prefix |-> IF ~loc_invalid_p(loc)
                   THEN <<loc.file_ref, loc.first_line, loc.first_column + 1>>
                   ELSE <<>>,
        level |-> level_word(dg.level), msg |-> d]

\* What the full style writes: the level and the message of diagnostic d,
\* the hints in the order diag_emit_hints leaves them in, the trace.
full_text(dg, d) ==
    LET hints == IF Len(dg.hints) > 0 THEN diag_emit_hints(dg.hints) ELSE <<>>
    IN [style |-> "MESSAGE_FULL", d |-> d, level |-> dg.level, msg |-> d,
        sorted |-> Len(dg.hints) > 0 /\ dg.hints[1].loc.file_ref # FILE_INVALID,
        hints |-> hints,
        trace |-> IF Len(dg.trace) > 0 THEN diag_emit_trace(hints, dg.trace)
                  ELSE <<>>]

\* diag_femit(d, f) up to the end of its output: the consumer is called, or
\* the diagnostic is written to the stream; in the compact style only a
\* diagnostic with a hint is written; the full style leaves the hints sorted.
femit_output(st, d) ==
    IF st.consumer THEN [st EXCEPT !.consumed = Append(@, d)]
    ELSE IF st.style = "MESSAGE_COMPACT"
    THEN IF Len(st.diags[d].hints) > 0
         THEN [st EXCEPT !.stream = Append(@, compact_line(st.diags[d], d))]
         ELSE st
    ELSE LET text == full_text(st.diags[d], d)
         IN [st EXCEPT !.stream = Append(@, text), !.diags[d].hints = text.hints]

\* An end of diag_femit that does nothing.
femit_return(st, d) == [st |-> st, fatal |-> FALSE]

\* diag_femit(d, f) after its output: the error counter, fatal at the limit,
\* else the texts and the diagnostic are freed.  c = [st, fatal].
femit_count_free(st, d) ==
    LET counts == counts_error(st.diags[d].level, st.unit_test)
        n == IF counts THEN st.n_errors + 1 ELSE st.n_errors
    IN IF counts /\ n = st.error_limit
       THEN [st |-> [st EXCEPT !.n_errors = n], fatal |-> TRUE]
       ELSE [st |-> [st EXCEPT !.n_errors = n,
                               !.diags[d] = [@ EXCEPT !.freed = TRUE,
                                                      !.hints = <<>>,
                                                      !.trace = <<>>]],
             fatal |-> FALSE]

\* diag_new(level, loc): a valid loc is the first hint, of priority 0 and
\* without text.  loc, the location the diagnostic was made with, is kept
\* for the properties only.
diag_new(level, loc) ==
    /\ ~crashed /\ Len(diag.diags) < MaxDiags
    /\ diag' = [diag EXCEPT !.diags =
                    Append(@, [level |-> level, loc |-> loc,
                               hints |-> IF ~loc_invalid_p(loc)
                                         THEN <<Hint(loc, NoName, 0, 1)>> ELSE <<>>,
                               trace |-> <<>>,
                               traced |-> <<>>,
                               freed |-> FALSE])]
    /\ UNCHANGED <<OtherVars, crashed>>

\* diag_hint(d, loc, fmt, ...): the text of the hint at a valid loc is
\* replaced, else the hint is appended with the priority -(d->hints.count).
diag_hint(d, loc, text) ==
    /\ ~crashed /\ ~diag.diags[d].freed /\ Len(diag.diags[d].hints) < MaxHints
    /\ LET hints == diag.diags[d].hints
           same == {i \in 1..Len(hints) : loc_eq(loc, hints[i].loc)}
           new == IF ~loc_invalid_p(loc) /\ same # {}
                  THEN LET i == CHOOSE k \in same : \A j \in same : k <= j
                       IN [hints EXCEPT ![i].text = text]
                  ELSE Append(hints, Hint(loc, text, -Len(hints), Len(hints) + 1))
       IN diag' = [diag EXCEPT !.diags[d].hints = new]
    /\ UNCHANGED <<OtherVars, crashed>>

\* diag_trace(d, loc, fmt, ...); traced is the trace as it was when the
\* diagnostic was emitted.
diag_trace(d, loc, text) ==
    /\ ~crashed /\ ~diag.diags[d].freed /\ Len(diag.diags[d].trace) < MaxTrace
    /\ LET dg == diag.diags[d]
           new == Append(dg.trace, Hint(loc, text, Len(dg.hints), Len(dg.trace) + 1))
       IN diag' = [diag EXCEPT !.diags[d].trace = new, !.diags[d].traced = new]
    /\ UNCHANGED <<OtherVars, crashed>>

\* diag_set_consumer(fn)
diag_set_consumer(fn) ==
    /\ ~crashed /\ diag.consumer # fn
    /\ diag' = [diag EXCEPT !.consumer = fn]
    /\ UNCHANGED <<OtherVars, crashed>>

\* diag_femit(d, f); fatal ends the process.  counted is the number of
\* diagnostics of level error or fatal, or of any level in unit-test mode,
\* emitted since the counter was reset.
diag_femit(d) ==
    /\ ~crashed /\ ~diag.diags[d].freed
    /\ LET out == femit_output(diag, d)
           r == femit_count_free(out, d)
           c == diag.diags[d].level \in {"DIAG_ERROR", "DIAG_FATAL"} \/ diag.unit_test
       IN /\ diag' = [r.st EXCEPT !.counted = IF c THEN @ + 1 ELSE @,
                                  !.emit = [d |-> d, consumer |-> diag.consumer,
                                            n_errors |-> diag.n_errors,
                                            stream |-> diag.stream, counts |-> c]]
          /\ crashed' = r.fatal
    /\ UNCHANGED OtherVars

\* reset_error_count()
reset_error_count ==
    /\ ~crashed /\ diag.n_errors # 0
    /\ diag' = [diag EXCEPT !.n_errors = 0, !.counted = 0, !.emit = NoEmit]
    /\ UNCHANGED <<OtherVars, crashed>>

\* The process starts with its options set.
InitDiag ==
    /\ trees = <<>> /\ types = <<>> /\ all_trees = <<>> /\ held = {}
    /\ next_generation = 1
    /\ wctx = NoCtx /\ rctx = NoRdCtx /\ file = NoFile
    /\ last = Last("init", NULL, NULL, <<>>, {}, NoPre)
    /\ nops = 0 /\ simp = NoSimp
    /\ crashed = FALSE
    /\ \E limit \in 0..MaxLimit, unit_test \in BOOLEAN,
          style \in {"MESSAGE_FULL", "MESSAGE_COMPACT"} :
          diag = [NoDiag EXCEPT !.error_limit = limit, !.unit_test = unit_test,
                                !.style = style]

NextDiag ==
    \/ \E i \in 1..Len(Levels) : \E loc \in {LOC_INVALID, LocOf(1, 0, 0, 0, 0)} :
          diag_new(Levels[i], loc)
    \/ \E fn \in BOOLEAN : diag_set_consumer(fn)
    \/ \E d \in 1..Len(diag.diags) : diag_femit(d)
    \/ reset_error_count

SpecDiag == InitDiag /\ [][NextDiag]_vars

\* ---- the hints and the trace of one diagnostic

\* Locations of hints: two columns of a line, another line, another file,
\* and no location.
HintLocs ==
    {LocOf(1, 0, 0, 0, 0), LocOf(1, 3, 0, 0, 0), LocOf(2, 0, 0, 0, 0),
     LocOf(1, 0, 0, 0, 1), LOC_INVALID}

\* No limit of errors is set.
InitHint == InitDiag /\ diag.error_limit = 0 /\ ~diag.unit_test

\* One diagnostic is made, given hints and a trace, and emitted.
NextHint ==
    \/ /\ diag.diags = <<>>
       /\ \E level \in {"DIAG_NOTE", "DIAG_ERROR"} : \E loc \in HintLocs :
             diag_new(level, loc)
    \/ \E d \in 1..Len(diag.diags) : \E loc \in HintLocs : diag_hint(d, loc, <<"h">>)
    \/ \E d \in 1..Len(diag.diags) : \E loc \in HintLocs : diag_trace(d, loc, <<"t">>)
    \/ \E d \in 1..Len(diag.diags) : diag_femit(d)

SpecHint == InitHint /\ [][NextHint]_vars

\* An operation may start: the process runs, no write or read context is
\* open (an operation completes before the next begins).
CanStep == ~crashed /\ nops < MaxOps /\ ~wctx.open /\ ~rctx.open

Init ==
    /\ \E d \in Designs :
          /\ trees = d.trees
          /\ types = d.types
          /\ held = d.held
          /\ all_trees = [i \in 1..Len(d.trees) |-> i]
    /\ next_generation = 1
    /\ wctx = NoCtx
    /\ rctx = NoRdCtx
    /\ simp = NoSimp
    /\ file = NoFile
    /\ last = Last("init", NULL, NULL, <<>>, {}, NoPre)
    /\ nops = 0
    /\ crashed = FALSE
    /\ diag = NoDiag

\* tree_new(kind): a cleared node, entered in the registry.
tree_new(k) ==
    /\ CanStep
    /\ Len(trees) < MaxNodes
    /\ trees' = Append(trees, NewTree(k))
    /\ all_trees' = Append(all_trees, Len(trees) + 1)
    /\ held' = held \cup {Len(trees) + 1}
    /\ last' = Last("tree_new", NULL, Len(trees) + 1, <<>>, {}, Pre)
    /\ nops' = nops + 1
    /\ UNCHANGED <<diag, simp, types, next_generation, wctx, rctx, file, crashed>>

\* tree_visit_only(t, fn, context, kind); tree_visit is the call with kind
\* T_LAST_TREE_KIND.  fn records the node it is applied to.
tree_visit_only(t, kind) ==
    /\ CanStep
    /\ Sound(t)
    /\ LET v == tree_visit_aux(VisitState(trees), types, t, kind, next_generation,
                               FALSE, {})
       IN /\ trees' = v.h
          /\ crashed' = v.overflow
          /\ last' = Last(IF kind = "T_LAST_TREE_KIND" THEN "tree_visit"
                          ELSE "tree_visit_only", t, v.n, v.calls, {}, Pre)
    /\ next_generation' = next_generation + 1
    /\ nops' = nops + 1
    /\ UNCHANGED <<diag, simp, types, all_trees, wctx, rctx, file, held>>

tree_visit(t) == tree_visit_only(t, "T_LAST_TREE_KIND")

\* tree_gc(): mark from the top-level units, sweep, compact.
tree_gc ==
    /\ CanStep
    /\ \A t \in Range(all_trees) : IS_TOP_LEVEL(trees[t].kind) => Sound(t)
    /\ LET g == tree_gc_result(trees, types, all_trees, next_generation)
       IN /\ trees' = g.h
          /\ all_trees' = IF g.overflow THEN all_trees ELSE g.reg
          /\ next_generation' = g.gen
          /\ crashed' = g.overflow
          /\ last' = Last("tree_gc", NULL, Len(all_trees) - Len(g.reg), <<>>,
                          IF g.overflow THEN {} ELSE g.freed, Pre)
    /\ nops' = nops + 1
    /\ UNCHANGED <<diag, simp, types, wctx, rctx, file, held>>

\* tree_copy(t)
tree_copy(t) ==
    /\ CanStep
    /\ Sound(t)
    /\ LET c == tree_copy_result(trees, all_trees, t, next_generation)
       IN /\ c.overflow \/ Len(c.h) <= MaxNodes
          /\ trees' = IF c.overflow THEN trees ELSE c.h
          /\ all_trees' = IF c.overflow THEN all_trees ELSE c.reg
          /\ held' = IF c.overflow THEN held ELSE held \cup {c.res}
          /\ crashed' = c.overflow
          /\ last' = Last("tree_copy", t, IF c.overflow THEN NULL ELSE c.res,
                          [i \in 1..Len(c.copied) |-> <<c.from[i], c.copied[i]>>],
                          {}, Pre)
    /\ next_generation' = next_generation + 1
    /\ nops' = nops + 1
    /\ UNCHANGED <<diag, simp, types, wctx, rctx, file>>

\* tree_write_begin(f) on a new file.
tree_write_begin ==
    /\ CanStep
    /\ file = NoFile
    /\ wctx' = [open |-> TRUE, generation |-> next_generation, n_trees |-> 0]
    /\ next_generation' = next_generation + 1
    /\ last' = Last("tree_write_begin", NULL, NULL, <<>>, {}, Pre)
    /\ nops' = nops + 1
    /\ UNCHANGED <<diag, simp, trees, types, all_trees, rctx, file, held, crashed>>

\* tree_write(t, ctx)
tree_write(t) ==
    /\ ~crashed /\ nops < MaxOps
    /\ wctx.open
    /\ Sound(t)
    /\ t \notin Range(file.roots)
    /\ LET w == tree_write_aux([h |-> trees, n_trees |-> wctx.n_trees,
                                out |-> file.toks, overflow |-> FALSE],
                               t, wctx.generation, {})
       IN /\ trees' = w.h
          /\ wctx' = [wctx EXCEPT !.n_trees = w.n_trees]
          /\ file' = [file EXCEPT !.toks = w.out, !.roots = Append(@, t)]
          /\ crashed' = w.overflow
          /\ last' = Last("tree_write", t, NULL, <<>>, {}, Pre)
    /\ nops' = nops + 1
    /\ UNCHANGED <<diag, simp, types, all_trees, next_generation, rctx, held>>

\* tree_write_end(ctx)
tree_write_end ==
    /\ ~crashed
    /\ wctx.open
    /\ wctx' = NoCtx
    /\ file' = IF file.toks = <<>> THEN NoFile ELSE [file EXCEPT !.closed = TRUE]
    /\ last' = Last("tree_write_end", NULL, NULL, <<>>, {}, Pre)
    /\ UNCHANGED <<diag, simp, trees, types, all_trees, next_generation, rctx, held, nops,
                   crashed>>

\* tree_read_begin(f) on the file the writer has finished.
tree_read_begin ==
    /\ ~crashed
    /\ ~wctx.open /\ ~rctx.open
    /\ file.closed /\ file.toks # <<>>
    /\ rctx' = [open |-> TRUE, pos |-> 1, store |-> <<>>, n_read |-> 0]
    /\ last' = Last("tree_read_begin", NULL, NULL, <<>>, {}, Pre)
    /\ UNCHANGED <<diag, simp, trees, types, all_trees, next_generation, wctx, file, held,
                   nops, crashed>>

\* tree_read(ctx): the next tree of the file.
tree_read ==
    /\ ~crashed
    /\ rctx.open
    /\ rctx.pos <= Len(file.toks)
    /\ LET r == tree_read_aux([ReadState(trees, all_trees) EXCEPT
                                  !.pos = rctx.pos, !.store = rctx.store],
                              file.toks)
       IN /\ r.abort \/ Len(r.h) <= MaxNodes
          /\ trees' = IF r.abort THEN trees ELSE r.h
          /\ all_trees' = IF r.abort THEN all_trees ELSE r.reg
          /\ rctx' = [rctx EXCEPT !.pos = r.pos, !.store = r.store, !.n_read = @ + 1]
          /\ held' = IF r.abort \/ r.res = NULL THEN held ELSE held \cup {r.res}
          /\ crashed' = r.abort
          /\ last' = Last("tree_read", file.roots[rctx.n_read + 1],
                          IF r.abort THEN NULL ELSE r.res, <<>>, {}, Pre)
    /\ UNCHANGED <<diag, simp, types, next_generation, wctx, file, nops>>

\* tree_read_end(ctx): the file is closed.
tree_read_end ==
    /\ ~crashed
    /\ rctx.open
    /\ rctx' = NoRdCtx
    /\ file' = NoFile
    /\ last' = Last("tree_read_end", NULL, NULL, <<>>, {}, Pre)
    /\ UNCHANGED <<diag, simp, trees, types, all_trees, next_generation, wctx, held, nops,
                   crashed>>

\* The callbacks tree_rewrite is called with on t: fn deletes one node of
\* the subgraph, or replaces one by a node the caller holds whose subgraph is
\* apart from t's, or returns every node as it is.
Fns(t) ==
    LET sub == Subgraph(trees, types, t)
        dom == sub \cup UNION {Range(TypeTrees(types, trees[d].type)) \ {NULL} :
                                d \in {x \in sub : RangedTypeDecl(trees[x], types)}}
        all == Reach(trees, types, {t}, TRUE)
    IN {NoFn}
       \cup {[del |-> {d}, rep |-> NoRep] : d \in dom}
       \cup {[del |-> {}, rep |-> <<x, y>>] :
                x \in dom,
                y \in {z \in held : Sound(z) /\ Reach(trees, types, {z}, TRUE) \cap all = {}}}

\* tree_rewrite(t, fn, context)
tree_rewrite(t, f) ==
    /\ CanStep
    /\ Sound(t)
    /\ LET r == tree_rewrite_aux(RewriteState(trees, types), t, f)
       IN /\ trees' = IF r.abort THEN trees ELSE r.h
          /\ types' = IF r.abort THEN types ELSE r.ty
          /\ crashed' = r.abort
          /\ last' = [Last("tree_rewrite", t, IF r.abort THEN NULL ELSE r.res,
                           r.calls, {}, Pre) EXCEPT !.fn = f]
    /\ nops' = nops + 1
    /\ UNCHANGED <<diag, simp, all_trees, next_generation, wctx, rctx, file, held>>

\* GenJump times tree_write_begin and tree_write_end with nothing written in
\* between: each pair takes one generation and nothing else changes.
EmptyWriteContexts ==
    /\ CanStep
    /\ next_generation < GEN_MOD
    /\ next_generation' = next_generation + GenJump
    /\ last' = Last("write_contexts", NULL, NULL, <<>>, {}, Pre)
    /\ nops' = nops + 1
    /\ UNCHANGED <<diag, simp, trees, types, all_trees, wctx, rctx, file, held, crashed>>

Next ==
    \/ \E k \in {"T_LITERAL", "T_ARCH"} : tree_new(k)
    \/ \E t \in held : tree_visit(t)
    \/ \E t \in held : \E k \in {"T_LITERAL", "T_REF"} : tree_visit_only(t, k)
    \/ tree_gc
    \/ \E t \in held : tree_copy(t)
    \/ tree_write_begin
    \/ \E t \in held : tree_write(t)
    \/ tree_write_end
    \/ tree_read_begin
    \/ tree_read
    \/ tree_read_end
    \/ EmptyWriteContexts

Spec == Init /\ [][Next]_vars

\* The rewriting behaviours: nodes are made and graphs are rewritten.
NextRewrite ==
    \/ \E k \in {"T_LITERAL", "T_ARCH"} : nops < MaxRewriteOps /\ tree_new(k)
    \/ \E t \in held : \E f \in Fns(t) : nops < MaxRewriteOps /\ tree_rewrite(t, f)

SpecRewrite == Init /\ [][NextRewrite]_vars

\* The simplification behaviours: simp_tree is given one node, by the local
\* or by the global pass.
InitSimp ==
    /\ trees = <<>> /\ types = <<>> /\ all_trees = <<>> /\ held = {}
    /\ next_generation = 1
    /\ wctx = NoCtx /\ rctx = NoRdCtx /\ file = NoFile
    /\ last = Last("init", NULL, NULL, <<>>, {}, NoPre)
    /\ nops = 0
    /\ crashed = FALSE
    /\ diag = NoDiag
    /\ \E t \in SimpInputs :
         \E g \in IF t.kind = "T_REF" THEN RefTables ELSE {<<>>} :
            simp = [NoSimp EXCEPT !.t = t, !.generics = g]

\* simp_tree(t, ctx): the rewriting of one node.
simp_tree(ctx) ==
    /\ ~simp.done /\ ~crashed
    /\ \E verbose \in BOOLEAN :
       LET t == simp.t
           flags == exec_get_flags(ctx.exec, verbose)
           r == CASE t.kind = "T_FCALL" -> simp_fcall(t, ctx)
                  [] t.kind = "T_PCALL" -> simp_call_args(t)
                  [] t.kind = "T_IF" -> [t |-> simp_if(t), abort |-> FALSE]
                  [] t.kind = "T_CASE" -> [t |-> simp_case(t), abort |-> FALSE]
                  [] t.kind = "T_PROCESS" -> simp_process(t)
                  [] t.kind = "T_CASSIGN" -> simp_cassign(t)
                  [] t.kind = "T_SELECT" -> simp_select(t)
                  [] t.kind = "T_WAIT" -> simp_wait(t)
                  [] t.kind = "T_CPCALL" -> simp_cpcall(t)
                  [] t.kind = "T_CASSERT" -> simp_cassert(t)
                  [] t.kind = "T_REF" ->
                       simp_ref(t, [UnitCtx(ctx) EXCEPT !.generics = simp.generics])
                  [] t.kind \in {"T_INSTANCE", "T_BINDING"} -> simp_generic_map(t, t.ref)
                  [] t.kind = "T_BLOCK" -> simp_generic_map(t, t)
                  [] OTHER -> [t |-> t, abort |-> FALSE]
       IN /\ simp' = [simp EXCEPT !.ctx = ctx, !.done = TRUE, !.flags = flags,
                                  !.warned = IF t.kind = "T_FCALL"
                                             THEN simp_fcall_warnings(t, ctx, flags)
                                             ELSE <<>>,
                                  !.out = IF r.abort THEN NoTree ELSE r.t]
          /\ crashed' = r.abort
    /\ UNCHANGED <<diag, trees, types, all_trees, next_generation, wctx, rctx, file, held,
                   last, nops>>

\* simplify_local and simplify_global
simplify_local == simp_tree(LocalCtx)

simplify_global == simp_tree(GlobalCtx)

NextSimp == simplify_local \/ simplify_global

SpecSimp == InitSimp /\ [][NextSimp]_vars

\* ---------------------------------------------------- a design unit simplified

AttrRef(name, predef, params, value) ==
    [kind |-> "T_ATTR_REF", subkind |-> predef, name |-> name, params |-> params,
     value |-> value, type |-> ScalarType, loc |-> Loc("u.vhd", 9, 4)]

\* make_default_value(type, loc) and std_func(name) are collaborators.
make_default_value(type, loc) == [kind |-> "T_DEFAULT", type |-> type, loc |-> loc]

std_func(name) == [kind |-> "T_FUNC_DECL", ident |-> name, subkind |-> "S_SCALAR_NOT"]

\* ident_uniq(prefix): a name no node has yet, the n-th made by the pass.
ident_uniq(prefix, n) == <<prefix, n>>

\* simp_attr_delayed_transaction(t, predef, ctx): c = [t, ctx].
simp_attr_delayed_transaction(t, predef, ctx) ==
    LET name == t.name
        decl == name.ref
    IN IF decl.kind \notin {"T_SIGNAL_DECL", "T_PORT_DECL"} THEN [t |-> t, ctx |-> ctx]
       ELSE LET sig_name == <<IF predef = "ATTR_DELAYED" THEN "delayed"
                                ELSE "transaction", name.ident>>
                s == [kind |-> "T_SIGNAL_DECL", loc |-> t.loc,
                      ident |-> ident_uniq(sig_name, ctx.nuniq), type |-> t.type,
                      value |-> IF predef = "ATTR_DELAYED" /\ HasValue(decl)
                                THEN decl.value
                                ELSE make_default_value(t.type, t.loc)]
                r == Name(s, {})
                not == [kind |-> "T_FCALL", ident |-> "not",
                        ref |-> std_func("STD.STANDARD.not(B)B"),
                        params |-> <<PosParam(0, r)>>]
                wave == IF predef = "ATTR_DELAYED"
                        THEN [kind |-> "T_WAVEFORM", value |-> name,
                              delay |-> t.params[1].value]
                        ELSE [kind |-> "T_WAVEFORM", value |-> not, delay |-> NoTree]
                a == [kind |-> "T_SIGNAL_ASSIGN", ident |-> "assign", target |-> r,
                      waveforms |-> <<wave>>]
                wait == Wait("wait", {"TREE_F_STATIC_WAIT"}, <<name>>)
                p == [kind |-> "T_PROCESS", loc |-> t.loc, ident |-> <<s.ident, "p">>,
                      flags |-> {}, decls |-> <<>>, triggers |-> <<>>,
                      stmts |-> <<a, wait>>]
            IN [t |-> r,
                ctx |-> [ctx EXCEPT !.imp_signals =
                                        <<[signal |-> s, process |-> p]>> \o @,
                                    !.nuniq = @ + 1]]

\* simp_attr_ref(t, ctx) for an attribute with a value and for 'DELAYED and
\* 'TRANSACTION.
simp_attr_ref(t, ctx) ==
    IF HasValue(t) THEN [t |-> t.value, ctx |-> ctx]
    ELSE IF t.subkind \in {"ATTR_DELAYED", "ATTR_TRANSACTION"}
    THEN simp_attr_delayed_transaction(t, t.subkind, ctx)
    ELSE [t |-> t, ctx |-> ctx]

\* The loop of simp_generics from generic i on; the first named element for
\* generic g from element j on.
RECURSIVE genmap_named(_, _, _)
genmap_named(t, g, j) ==
    IF j > Len(t.genmaps) THEN NoTree
    ELSE LET m == t.genmaps[j]
         IN IF m.subkind = "P_NAMED" /\ m.name.ident = g.ident THEN m.value
            ELSE genmap_named(t, g, j + 1)

RECURSIVE simp_generics_from(_, _, _)
simp_generics_from(t, h, i) ==
    IF i > Len(t.generics) THEN h
    ELSE LET g == t.generics[i]
             m1 == IF i <= Len(t.genmaps) /\ t.genmaps[i].subkind = "P_POS"
                   THEN t.genmaps[i].value ELSE NoTree
             m2 == IF m1 = NoTree THEN genmap_named(t, g, 1) ELSE m1
             map == IF m2 = NoTree /\ HasValue(g) THEN g.value ELSE m2
         IN simp_generics_from(t, IF map = NoTree THEN h ELSE hash_put(h, g, map), i + 1)

\* simp_generics(t, ctx)
simp_generics(t, ctx) ==
    [ctx EXCEPT !.generics = simp_generics_from(t, ctx.generics, 1)]

\* simp_pre_cb(t, ctx)
simp_pre_cb(t, ctx) ==
    IF t.kind = "T_BLOCK" /\ Len(t.genmaps) > 0 THEN simp_generics(t, ctx) ELSE ctx

\* simp_tree(t, ctx) as tree_rewrite calls it on the nodes of a unit.
simp_post(t, ctx) ==
    LET plain(r) == [t |-> r.t, ctx |-> [ctx EXCEPT !.abort = r.abort]]
    IN CASE t.kind = "T_ATTR_REF" -> simp_attr_ref(t, ctx)
         [] t.kind = "T_REF" -> plain(simp_ref(t, ctx))
         [] t.kind = "T_PROCESS" -> plain(simp_process(t))
         [] t.kind = "T_WAIT" -> plain(simp_wait(t))
         [] t.kind = "T_BLOCK" -> plain(simp_generic_map(t, t))
         [] OTHER -> [t |-> t, ctx |-> ctx]

\* tree_rewrite(t, simp_pre_cb, simp_tree, ctx): simp_pre_cb on the way down,
\* the nodes a node holds, then simp_tree on the node; an element rewritten
\* to NULL leaves its list.
RECURSIVE unit_rewrite(_, _), unit_rewrite_all(_, _), unit_rewrite_maps(_, _)
unit_rewrite_all(ts, ctx) ==
    IF ts = <<>> THEN [ts |-> <<>>, ctx |-> ctx]
    ELSE LET h == unit_rewrite(Head(ts), ctx)
             r == unit_rewrite_all(Tail(ts), h.ctx)
         IN [ts |-> (IF h.t = NoTree THEN <<>> ELSE <<h.t>>) \o r.ts, ctx |-> r.ctx]

unit_rewrite_maps(ms, ctx) ==
    IF ms = <<>> THEN [ts |-> <<>>, ctx |-> ctx]
    ELSE LET h == unit_rewrite(Head(ms).value, ctx)
             r == unit_rewrite_maps(Tail(ms), h.ctx)
         IN [ts |-> <<[Head(ms) EXCEPT !.value = h.t]>> \o r.ts, ctx |-> r.ctx]

unit_rewrite(t, ctx) ==
    IF t = NoTree \/ ctx.abort THEN [t |-> t, ctx |-> ctx]
    ELSE LET c0 == simp_pre_cb(t, ctx)
             r == CASE t.kind = "T_ARCH" ->
                         LET d == unit_rewrite_all(t.decls, c0)
                             s == unit_rewrite_all(t.stmts, d.ctx)
                         IN [t |-> [t EXCEPT !.decls = d.ts, !.stmts = s.ts],
                             ctx |-> s.ctx]
                    [] t.kind = "T_BLOCK" ->
                         LET g == unit_rewrite_all(t.generics, c0)
                             d == unit_rewrite_all(t.decls, g.ctx)
                             s == unit_rewrite_all(t.stmts, d.ctx)
                             m == unit_rewrite_maps(t.genmaps, s.ctx)
                         IN [t |-> [t EXCEPT !.generics = g.ts, !.decls = d.ts,
                                             !.stmts = s.ts, !.genmaps = m.ts],
                             ctx |-> m.ctx]
                    [] t.kind = "T_PROCESS" ->
                         LET s == unit_rewrite_all(t.stmts, c0)
                         IN [t |-> [t EXCEPT !.stmts = s.ts], ctx |-> s.ctx]
                    [] t.kind = "T_VAR_ASSIGN" ->
                         LET g == unit_rewrite(t.target, c0)
                             v == unit_rewrite(t.value, g.ctx)
                         IN [t |-> [t EXCEPT !.target = g.t, !.value = v.t],
                             ctx |-> v.ctx]
                    [] t.kind \in {"T_SIGNAL_DECL", "T_PORT_DECL", "T_CONST_DECL"} ->
                         LET v == unit_rewrite(t.value, c0)
                         IN [t |-> [t EXCEPT !.value = v.t], ctx |-> v.ctx]
                    [] t.kind = "T_ATTR_REF" ->
                         LET n == unit_rewrite(t.name, c0)
                             v == unit_rewrite(t.value, n.ctx)
                             p == unit_rewrite_maps(t.params, v.ctx)
                         IN [t |-> [t EXCEPT !.name = n.t, !.value = v.t,
                                             !.params = p.ts],
                             ctx |-> p.ctx]
                    [] OTHER -> [t |-> t, ctx |-> c0]
         IN IF r.ctx.abort THEN r ELSE simp_post(r.t, r.ctx)

\* ---- the units simplify_local and simplify_global are given

UnitSig == [kind |-> "T_SIGNAL_DECL", ident |-> "s", type |-> ScalarType,
            value |-> Literal(0)]

UnitSigNoInit == [kind |-> "T_SIGNAL_DECL", ident |-> "q", type |-> ScalarType,
                  value |-> NoTree]

UnitPort == [kind |-> "T_PORT_DECL", ident |-> "p", class |-> "C_SIGNAL",
             type |-> ScalarType, value |-> NoTree]

UnitAlias == [kind |-> "T_ALIAS", ident |-> "al", value |-> Name(UnitSig, {})]

Delayed(decl) ==
    AttrRef(Name(decl, {}), "ATTR_DELAYED", <<PosParam(0, Literal(5))>>, NoTree)

Transaction(decl) == AttrRef(Name(decl, {}), "ATTR_TRANSACTION", <<>>, NoTree)

\* A user-defined attribute of s: sem attached its value to the reference.
UserAttr(v) == AttrRef(Name(UnitSig, {}), "ATTR_USER", <<>>, Literal(v))

\* A process without sensitivity list that assigns each of es to v.
UnitProc(es) ==
    [kind |-> "T_PROCESS", loc |-> Loc("u.vhd", 8, 2), ident |-> "up", flags |-> {},
     decls |-> <<>>, triggers |-> <<>>,
     stmts |-> [i \in 1..Len(es) |-> VarAssign(Name(Var("v"), {}), es[i])]]

\* The processes of a unit: 'DELAYED of a signal with and without initial
\* value, 'TRANSACTION of a port and of an alias, both attributes of one
\* signal.
UnitProcs ==
    { UnitProc(<<Delayed(UnitSig)>>), UnitProc(<<Delayed(UnitSigNoInit)>>),
      UnitProc(<<Transaction(UnitPort)>>), UnitProc(<<Transaction(UnitAlias)>>),
      UnitProc(<<Delayed(UnitSig), Transaction(UnitSig)>>) }

\* The values a generic map gives generic N.
MapVals == {Literal(16), UserAttr(16)}

GenK == Generic("K", Literal(2))

GenM == Generic("M", NoTree)

\* The generic maps sem accepts for the generics gs: positional elements
\* first, each generic once at most, every generic without default bound.
GenMaps(gs) ==
    LET vals(g) == IF g.ident = "N" THEN MapVals ELSE {Literal(5)}
        pool == UNION { UNION { {PosParam(i - 1, v), NamedMap(gs[i], v)} :
                                  v \in vals(gs[i]) } : i \in 1..Len(gs) }
        formal(ms, j) == IF ms[j].subkind = "P_POS" THEN j
                         ELSE CHOOSE i \in 1..Len(gs) : gs[i].ident = ms[j].name.ident
    IN { ms \in SeqsUpTo(pool, Len(gs)) :
           /\ \A j \in 1..Len(ms) : ms[j].subkind = "P_POS" =>
                 /\ ms[j].pos = j - 1
                 /\ \A k \in 1..(j - 1) : ms[k].subkind = "P_POS"
           /\ \A j, k \in 1..Len(ms) : formal(ms, j) = formal(ms, k) => j = k
           /\ \A i \in 1..Len(gs) :
                 HasValue(gs[i]) \/ \E j \in 1..Len(ms) : formal(ms, j) = i }

\* The body of a block with the generics gs: a process that reads each of
\* them and, or, a nested block whose generic M is bound to v.
InnerBlock(v, outer) ==
    GenericBlock("inner", <<GenM>>, <<NamedMap(GenM, v)>>,
                 <<UnitProc(<<Name(GenM, {})>> \o outer)>>)

BlockBodies(gs) ==
    LET reads == [i \in 1..Len(gs) |-> Name(gs[i], {})]
    IN { <<UnitProc(reads)>>,
         <<UnitProc(reads), InnerBlock(reads[1], <<>>)>>,
         <<InnerBlock(Literal(3), reads)>> }

GenericBlocks ==
    UNION { { GenericBlock("outer", gs, ms, body) :
                ms \in GenMaps(gs), body \in BlockBodies(gs) } :
            gs \in UNION { {<<Generic("N", d)>>, <<Generic("N", d), GenK>>} :
                            d \in {NoTree, Literal(8)} } }

\* The units: an architecture with processes and, or, a block.
Units ==
    { [kind |-> "T_ARCH", ident |-> "a",
       decls |-> <<UnitSig, UnitSigNoInit>>, stmts |-> ps \o b] :
        ps \in SeqsUpTo(UnitProcs, MaxUnitProcs),
        b \in {<<>>} \cup {<<x>> : x \in GenericBlocks} }

NoUnit ==
    [t |-> NoTree, ctx |-> LocalCtx, done |-> FALSE, out |-> NoTree,
     created |-> <<>>, pending |-> <<>>, generics |-> <<>>]

InitUnit ==
    /\ trees = <<>> /\ types = <<>> /\ all_trees = <<>> /\ held = {}
    /\ next_generation = 1
    /\ wctx = NoCtx /\ rctx = NoRdCtx /\ file = NoFile
    /\ last = Last("init", NULL, NULL, <<>>, {}, NoPre)
    /\ nops = 0
    /\ crashed = FALSE
    /\ diag = NoDiag
    /\ \E t \in Units : simp = [NoUnit EXCEPT !.t = t]

\* An installation that ends after the head of the list.
imp_install_head(top, imp) ==
    IF imp = <<>> THEN top
    ELSE [top EXCEPT !.decls = Append(@, Head(imp).signal),
                     !.stmts = Append(@, Head(imp).process)]

\* The loop of simplify_local over the list: the signal of each element is
\* added to the declarations, its process to the statements.
RECURSIVE imp_install(_, _)
imp_install(top, imp) ==
    IF imp = <<>> THEN top
    ELSE imp_install([top EXCEPT !.decls = Append(@, Head(imp).signal),
                                 !.stmts = Append(@, Head(imp).process)],
                     Tail(imp))

\* simplify_local(top)
simplify_local_unit ==
    /\ ~simp.done /\ ~crashed
    /\ LET r == unit_rewrite(simp.t, UnitCtx(LocalCtx))
       IN /\ simp' = [simp EXCEPT !.ctx = LocalCtx, !.done = TRUE,
                         !.created = r.ctx.imp_signals,
                         !.generics = r.ctx.generics,
                         !.pending = <<>>,
                         !.out = IF r.ctx.abort THEN NoTree
                                 ELSE imp_install(r.t, r.ctx.imp_signals)]
          /\ crashed' = r.ctx.abort
    /\ UNCHANGED <<diag, trees, types, all_trees, next_generation, wctx, rctx, file, held,
                   last, nops>>

\* simplify_global(top, NULL): the assertion on the list ends the process
\* in a build with assertions and is no code in a build without.
simplify_global_unit ==
    /\ ~simp.done /\ ~crashed
    /\ \E ndebug \in BOOLEAN :
         LET r == unit_rewrite(simp.t, UnitCtx(GlobalCtx))
             failed == r.ctx.abort \/ (~ndebug /\ r.ctx.imp_signals # <<>>)
         IN /\ simp' = [simp EXCEPT !.ctx = GlobalCtx, !.done = TRUE,
                           !.created = r.ctx.imp_signals,
                           !.generics = r.ctx.generics,
                           !.pending = IF failed THEN <<>> ELSE r.ctx.imp_signals,
                           !.out = IF failed THEN NoTree ELSE r.t]
            /\ crashed' = failed
    /\ UNCHANGED <<diag, trees, types, all_trees, next_generation, wctx, rctx, file, held,
                   last, nops>>

NextUnit == simplify_local_unit \/ simplify_global_unit

SpecUnit == InitUnit /\ [][NextUnit]_vars

\* ------------------------------------- the wait of an all-sensitised process

\* The procedures of a unit, by name: a call refers to the body of the
\* procedure it calls, which may be the body the call is in.
ProcNames == {"p", "q"}

PCall(name) ==
    [kind |-> "T_PCALL", ident |-> "c", ref |-> name,
     params |-> <<PosParam(0, RefTo(Sig("r")))>>]

BodyPool == { VarAssign(RefTo(Var("v")), RefTo(SignalDecl)) } \cup { PCall(n) : n \in ProcNames }

ProcBody(name, stmts) ==
    [kind |-> "T_PROC_BODY", ident |-> name, ports |-> SubSeq(ModePorts, 1, 1),
     stmts |-> stmts]

ProcTables ==
    { [n \in ProcNames |-> ProcBody(n, b[n])] :
        b \in [ProcNames -> SeqsUpTo(BodyPool, MaxBody)] }

AllProcesses ==
    { [kind |-> "T_PROCESS", loc |-> Loc("c.vhd", 12, 2), ident |-> "p", flags |-> {},
       decls |-> <<>>, triggers |-> <<[kind |-> "T_ALL"]>>, stmts |-> ss] :
        ss \in { <<PCall("p")>>, <<VarAssign(RefTo(Var("v")), RefTo(SignalDecl))>>,
                 <<VarAssign(RefTo(Var("v")), RefTo(Sig("r"))), PCall("q")>> } }

\* The calls of simp_build_wait in progress: stack holds, for each call on
\* a process or a body, its statements and the index of the next one, the
\* innermost call first; st is the wait being built.
NoWait ==
    [t |-> NoTree, procs |-> <<>>, began |-> FALSE, stack |-> <<>>,
     st |-> WaitState(<<>>), done |-> FALSE, out |-> NoTree]

InitWait ==
    /\ trees = <<>> /\ types = <<>> /\ all_trees = <<>> /\ held = {}
    /\ next_generation = 1
    /\ wctx = NoCtx /\ rctx = NoRdCtx /\ file = NoFile
    /\ last = Last("init", NULL, NULL, <<>>, {}, NoPre)
    /\ nops = 0
    /\ crashed = FALSE
    /\ diag = NoDiag
    /\ \E t \in AllProcesses : \E procs \in ProcTables :
          simp = [NoWait EXCEPT !.t = t, !.procs = procs]

\* A call simp_build_wait(wait, expr, true) on a process or a body starts.
Frame(expr) == [stmts |-> expr.stmts, i |-> 1]

\* simp_process(t) up to its call simp_build_wait(w, t, true)
simp_process_begin ==
    /\ ~simp.began /\ ~crashed
    /\ simp' = [simp EXCEPT !.began = TRUE, !.stack = <<Frame(simp.t)>>]
    /\ UNCHANGED <<diag, trees, types, all_trees, next_generation, wctx, rctx, file, held,
                   last, nops, crashed>>

\* The innermost call takes the next statement of its loop. A procedure
\* call has its arguments visited and then, the procedure having a body,
\* simp_build_wait is called on the body; any other statement holds no call
\* and is visited at once. The stack of the process holds MaxDepth calls:
\* one more ends the process.
build_wait_stmt ==
    /\ simp.began /\ ~simp.done /\ ~crashed /\ simp.stack # <<>>
    /\ Head(simp.stack).i <= Len(Head(simp.stack).stmts)
    /\ LET top   == Head(simp.stack)
           expr  == top.stmts[top.i]
           stack == <<[top EXCEPT !.i = @ + 1]>> \o Tail(simp.stack)
       IN IF expr.kind = "T_PCALL"
          THEN LET decl == simp.procs[expr.ref]
                   read == SelectSeq([i \in 1..Len(expr.params) |->
                                        [m |-> ParamMode(decl, i),
                                         v |-> expr.params[i].value]],
                                     LAMBDA x : x.m \in {"PORT_IN", "PORT_INOUT"})
                   s1   == build_wait_each(simp.st, [i \in 1..Len(read) |-> read[i].v],
                                           TRUE)
                   deep == decl.kind = "T_PROC_BODY" /\ Len(stack) = MaxDepth
               IN /\ simp' = [simp EXCEPT !.st = s1,
                                 !.stack = IF decl.kind = "T_PROC_BODY" /\ ~deep
                                           THEN <<Frame(decl)>> \o stack
                                           ELSE stack]
                  /\ crashed' = (s1.abort \/ deep)
          ELSE LET s1 == simp_build_wait(simp.st, expr, TRUE)
               IN /\ simp' = [simp EXCEPT !.st = s1, !.stack = stack]
                  /\ crashed' = s1.abort
    /\ UNCHANGED <<diag, trees, types, all_trees, next_generation, wctx, rctx, file, held,
                   last, nops>>

\* The innermost call has visited its statements and returns.
build_wait_return ==
    /\ simp.began /\ ~simp.done /\ ~crashed /\ simp.stack # <<>>
    /\ Head(simp.stack).i > Len(Head(simp.stack).stmts)
    /\ simp' = [simp EXCEPT !.stack = Tail(@)]
    /\ UNCHANGED <<diag, trees, types, all_trees, next_generation, wctx, rctx, file, held,
                   last, nops, crashed>>

\* simp_process(t) after simp_build_wait has returned
simp_process_end ==
    /\ simp.began /\ ~simp.done /\ ~crashed /\ simp.stack = <<>>
    /\ simp' = [simp EXCEPT !.done = TRUE,
                  !.out = Process(simp.t, {}, simp.t.decls,
                                  simp.t.stmts \o <<Wait(simp.t.ident,
                                                         {"TREE_F_STATIC_WAIT"},
                                                         simp.st.triggers)>>)]
    /\ UNCHANGED <<diag, trees, types, all_trees, next_generation, wctx, rctx, file, held,
                   last, nops, crashed>>

NextWait ==
    simp_process_begin \/ build_wait_stmt \/ build_wait_return \/ simp_process_end

SpecWait == InitWait /\ [][NextWait]_vars

\* The process runs: a call in progress takes its next step.
SpecWaitLive == SpecWait /\ WF_vars(NextWait)

\* ------------------------------------------------------ structural equality

\* What a node holds apart from the nodes it points to, in the slots legal
\* for its kind: kind, location, identifiers, attached type, literal value,
\* the length of each sequence, the kind and position of each association
\* and the kind, name and integer value of each attribute.
Shape(n) ==
    [kind |-> n.kind, loc |-> n.loc, ident |-> n.ident, ident2 |-> n.ident2,
     type |-> n.type, literal |-> n.literal,
     lens |-> <<Len(n.ports), Len(n.generics), Len(n.decls), Len(n.triggers),
                Len(n.stmts), Len(n.waves), Len(n.elses), Len(n.drivers)>>,
     assocs |-> [i \in 1..Len(n.assocs) |-> <<n.assocs[i].kind, n.assocs[i].pos>>],
     attrs |-> [i \in 1..Len(n.attrs) |->
                  <<n.attrs[i].kind, n.attrs[i].name, n.attrs[i].ival>>]]

\* The nodes a node points to, slot by slot.
Children(n) ==
    n.ports \o n.generics \o n.decls \o n.triggers \o n.stmts \o n.waves \o n.elses
    \o n.drivers \o <<n.value, n.target, n.ref>>
    \o Concat([i \in 1..Len(n.assocs) |-> <<n.assocs[i].name, n.assocs[i].value>>])
    \o [i \in 1..Len(n.attrs) |-> n.attrs[i].tval]

\* Graph a of heap h1 and graph b of heap h2 are structurally equal: there
\* is a one-to-one correspondence of their nodes that maps a to b, keeps
\* shapes and commutes with every slot.  st.m is the correspondence so far.
RECURSIVE MatchAux(_, _, _, _, _)
RECURSIVE MatchSeq(_, _, _, _, _)

MatchSeq(st, h1, h2, as, bs) ==
    IF ~st.ok \/ as = <<>> THEN st
    ELSE MatchSeq(MatchAux(st, h1, h2, Head(as), Head(bs)), h1, h2, Tail(as), Tail(bs))

MatchAux(st, h1, h2, a, b) ==
    IF ~st.ok THEN st
    ELSE IF a = NULL \/ b = NULL THEN [st EXCEPT !.ok = (a = b)]
    ELSE IF \E p \in st.m : p[1] = a THEN [st EXCEPT !.ok = (<<a, b>> \in st.m)]
    ELSE IF \E p \in st.m : p[2] = b THEN [st EXCEPT !.ok = FALSE]
    ELSE IF Shape(h1[a]) # Shape(h2[b]) THEN [st EXCEPT !.ok = FALSE]
    ELSE MatchSeq([st EXCEPT !.m = @ \cup {<<a, b>>}], h1, h2,
                  Children(h1[a]), Children(h2[b]))

Match(h1, a, h2, b) == MatchAux([m |-> {}, ok |-> TRUE], h1, h2, a, b).ok

NoDuplicates(s) == \A i, j \in 1..Len(s) : s[i] = s[j] => i = j

\* ------------------------------------------------------------------- claims

\* C1: a graph written with tree_write into a fresh write context and read
\* back with tree_read is structurally equal to the graph written: same
\* kind and same contents in every legal slot (identifiers, location, child
\* sequences, drivers, single-child slots, literal, attributes), and two
\* occurrences of one node are one node in the result.
C1_RoundTrip ==
    (last.op = "tree_read" /\ ~crashed) =>
        Match(trees, last.root, trees, last.res)

\* C2: tree_gc frees no top-level unit and no node reachable from a
\* top-level unit through child slots, ref slots, attached types or
\* tree-valued attributes; the count freed is >= 0 and the registry holds
\* exactly the surviving nodes, n_trees_alloc being their count.
C2_GcKeepsReachable ==
    (last.op = "tree_gc" /\ ~crashed) =>
        LET reg  == Range(last.pre.all_trees)
            tops == {t \in reg : IS_TOP_LEVEL(last.pre.trees[t].kind)}
            keep == Reach(last.pre.trees, last.pre.types, tops, TRUE)
        IN /\ last.freed \cap keep = {}
           /\ last.res >= 0
           /\ Range(all_trees) = reg \ last.freed
           /\ NoDuplicates(all_trees)
           /\ NULL \notin Range(all_trees)
           /\ n_trees_alloc = Cardinality(reg \ last.freed)

\* C3: tree_copy(t) returns a graph none of whose nodes is a node of the
\* original, with the attached types shared with the original, a node
\* reachable by two paths copied once, and the copy of the copy
\* structurally equal to the copy.
C3_CopyFresh ==
    (last.op = "tree_copy" /\ ~crashed) =>
        LET old == 1..Len(last.pre.trees)
            cc  == tree_copy_result(trees, all_trees, last.res, next_generation)
        IN /\ Reach(trees, types, {last.res}, FALSE) \cap old = {}
           /\ \A i \in 1..Len(last.calls) :
                 trees[last.calls[i][2]].type = last.pre.trees[last.calls[i][1]].type
           /\ NoDuplicates([i \in 1..Len(last.calls) |-> last.calls[i][1]])
           /\ ~cc.overflow /\ Match(trees, last.res, cc.h, cc.res)

\* C4: a declaration outside the copied subgraph that a copied node reaches
\* through its ref slot is not copied: the ref slot of the copy points to
\* the declaration the ref slot of the original points to.
C4_CopyKeepsRef ==
    (last.op = "tree_copy" /\ ~crashed) =>
        LET sub == Subgraph(last.pre.trees, last.pre.types, last.root)
        IN \A i \in 1..Len(last.calls) :
              LET x == last.calls[i][1]
                  c == last.calls[i][2]
              IN (x \in sub /\ HAS_REF(last.pre.trees[x].kind)
                  /\ last.pre.trees[x].ref \notin sub)
                 => trees[c].ref = last.pre.trees[x].ref

\* C5: in a tree_visit / tree_visit_only traversal the callback is applied
\* to each node at most once, whatever ran before; the generation the
\* traversal takes is carried by no node when it starts.
C5_VisitOnce ==
    (last.op \in {"tree_visit", "tree_visit_only"} /\ ~crashed) =>
        /\ NoDuplicates(last.calls)
        /\ \A t \in Range(last.pre.all_trees) :
              last.pre.trees[t].generation # next_generation - 1

\* The result of fn on each element of a sequence.
MapFn(f, s) == [i \in 1..Len(s) |-> ApplyFn(f, s[i])]

\* The first place of node t in the sequence of fn's applications.
FirstCall(t) == CHOOSE p \in 1..Len(last.calls) :
                   last.calls[p] = t /\ \A q \in 1..(p - 1) : last.calls[q] # t

\* C6: tree_rewrite replaces each sequence slot of a rewritten node by the
\* results of fn on its elements, the null results removed and the others in
\* their order; fn is applied to a node after it was applied to the nodes of
\* its child slots, and what fn returns replaces the node in its parent (and
\* is the result of tree_rewrite).
C6_RewriteSlots ==
    (last.op = "tree_rewrite" /\ ~crashed) =>
        /\ \A t \in Range(last.calls) :
              LET old == last.pre.trees[t]
              IN /\ \A slot \in SeqSlots :
                       trees[t][slot] = SelectNonNull(MapFn(last.fn, old[slot]))
                 /\ old.value # NULL => trees[t].value = ApplyFn(last.fn, old.value)
                 /\ old.target # NULL => trees[t].target = ApplyFn(last.fn, old.target)
                 /\ \A c \in {x.t : x \in Range(VisitOrder(old, last.pre.types, FALSE))} \ {NULL} :
                       \E q \in 1..(FirstCall(t) - 1) : last.calls[q] = c
        /\ last.res = ApplyFn(last.fn, last.root)

\* C6 witness: a rewriting removed one element of a sequence of several and
\* kept the others.
C6_Witness ==
    /\ last.op = "tree_rewrite" /\ ~crashed
    /\ \E t \in Range(last.calls) : \E slot \in SeqSlots :
          /\ Len(last.pre.trees[t][slot]) >= 2
          /\ Len(trees[t][slot]) = Len(last.pre.trees[t][slot]) - 1
          /\ last.pre.trees[t][slot][1] \in last.fn.del

\* C7 as stated: after tree_rewrite every type record, with the range bounds
\* stored in it, is as before, and fn was applied to no node outside the
\* subgraph of the rewritten node.
C7_Original ==
    (last.op = "tree_rewrite" /\ ~crashed) =>
        /\ types = last.pre.types
        /\ Range(last.calls) \subseteq
              Subgraph(last.pre.trees, last.pre.types, last.root)

\* C7 amended: tree_rewrite changes no attached type pointer, and changes a
\* type record only for a rewritten type declaration of an integer, physical
\* or constrained array type: each bound of that type is replaced by the
\* result of fn on it, and fn is applied outside the subgraph of the
\* rewritten node only to the bounds of such types.
C7_TypesOnlyThroughDecl ==
    (last.op = "tree_rewrite" /\ ~crashed) =>
        LET old   == last.pre.trees
            sub   == Subgraph(old, last.pre.types, last.root)
            decls == {t \in sub : RangedTypeDecl(old[t], last.pre.types)}
            tys   == {old[t].type : t \in decls}
        IN /\ \A t \in 1..Len(old) : trees[t].type = old[t].type
           /\ Len(types) = Len(last.pre.types)
           /\ \A ty \in 1..Len(types) :
                 IF ty \in tys
                 THEN /\ types[ty].kind = last.pre.types[ty].kind
                      /\ Len(types[ty].dims) = Len(last.pre.types[ty].dims)
                      /\ \A i \in 1..Len(types[ty].dims) :
                            types[ty].dims[i] =
                               [left  |-> ApplyFn(last.fn, last.pre.types[ty].dims[i].left),
                                right |-> ApplyFn(last.fn, last.pre.types[ty].dims[i].right)]
                 ELSE types[ty] = last.pre.types[ty]
           /\ Range(last.calls) \subseteq
                 sub \cup UNION {Reach(old, last.pre.types,
                                       Range(TypeTrees(last.pre.types, ty)) \ {NULL}, FALSE)
                                 : ty \in tys}

\* C7 witness: a type declaration of an integer type was rewritten and a
\* bound of its type was replaced, while a node of that type was rewritten
\* too.
C7_Witness ==
    /\ last.op = "tree_rewrite" /\ ~crashed
    /\ types # last.pre.types
    /\ \E t \in Range(last.calls) : RangedTypeDecl(last.pre.trees[t], last.pre.types)
    /\ \E t \in Range(last.calls) : last.pre.trees[t].kind = "T_LITERAL"
                                    /\ last.pre.trees[t].type # NULL

\* The call has a named argument after its last positional argument.
HasNamed(t) == LastPos(t.params) < Len(t.params)

\* The named parameter of call t for port name n, 0 if there is none.
NamedFor(t, n) ==
    LET J == {j \in (LastPos(t.params) + 1)..Len(t.params) : t.params[j].name.ident = n}
    IN IF J = {} THEN 0 ELSE CHOOSE j \in J : \A k \in J : j <= k

\* The value the claim gives port i of the called declaration: the value of
\* its positional or named parameter, or the port's default if that value is
\* open or the call does not supply the port.
ClaimedArg(t, i) ==
    LET port == t.ref.ports[i]
        j    == IF i <= LastPos(t.params) THEN i ELSE NamedFor(t, port.ident)
    IN IF j = 0 \/ t.params[j].value.kind = "T_OPEN" THEN port.value
       ELSE t.params[j].value

\* simp_call_args alone made the result: a procedure call, or a function
\* call of a type that is not scalar.
ArgsOnly(t) ==
    \/ t.kind = "T_PCALL"
    \/ t.kind = "T_FCALL" /\ ~type_is_scalar(t.type)

\* C8: for a call with a named argument after its last positional one, in
\* which no port needs a default that it does not have, simp_call_args
\* returns a call with one positional parameter per port in declaration
\* order: the named value for a named port, the port's default for a port
\* associated with open and for a port the call does not supply.
C8_CallArgs ==
    (simp.done /\ ArgsOnly(simp.t) /\ HasNamed(simp.t)
     /\ \A i \in 1..Len(simp.t.ref.ports) : ClaimedArg(simp.t, i) # NoTree) =>
        /\ ~crashed
        /\ simp.out.kind = simp.t.kind
        /\ simp.out.params =
              [i \in 1..Len(simp.t.ref.ports) |-> PosParam(i - 1, ClaimedArg(simp.t, i))]

\* C9 as stated: simp_fcall gives the literal of exec_fold if the call is
\* foldable under the evaluator's flags, of scalar type and lowered to a
\* thunk, and the call with its arguments made positional otherwise.
C9_Original ==
    (simp.done /\ simp.t.kind = "T_FCALL" /\ ~crashed) =>
        LET n == simp_call_args(simp.t).t
        IN simp.out = IF /\ fold_possible(n, simp.ctx.exec)
                         /\ type_is_scalar(n.type)
                         /\ lower_thunk(n)
                      THEN exec_fold(n) ELSE n

\* C9 amended: simp_fcall gives the literal of exec_fold if the call carries
\* a flag of the pass's eval_mask (locally static in the local pass, locally
\* or globally static in the global pass), is foldable under the evaluator's
\* flags, of scalar type and lowered to a thunk; otherwise it gives the call
\* with its arguments made positional.
C9_FoldGated ==
    (simp.done /\ simp.t.kind = "T_FCALL" /\ ~crashed) =>
        LET n == simp_call_args(simp.t).t
        IN simp.out = IF /\ n.flags \cap simp.ctx.eval_mask # {}
                         /\ fold_possible(n, simp.ctx.exec)
                         /\ type_is_scalar(n.type)
                         /\ lower_thunk(n)
                      THEN exec_fold(n) ELSE n

\* C9 witness: the global pass folded a call with a named argument, and the
\* call is one the local pass leaves unfolded.
C9_Witness ==
    /\ simp.done /\ ~crashed
    /\ simp.t.kind = "T_FCALL" /\ HasNamed(simp.t)
    /\ simp.ctx = GlobalCtx
    /\ simp.out.kind = "T_LITERAL"
    /\ simp.t.flags = {"TREE_F_GLOBALLY_STATIC"}

\* The condition is the boolean constant b.
FoldsTo(v, b) ==
    /\ v.kind = "T_REF" /\ v.ref.kind = "T_ENUM_LIT" /\ v.ref.type = "BOOLEAN"
    /\ (v.ref.pos = 1) = b

\* What the claim gives for a taken branch of one or of several statements.
IsBranch(out, t, branch) ==
    /\ Len(branch) = 1 => out = branch[1]
    /\ Len(branch) >= 2 =>
          /\ out.kind = "T_BLOCK"
          /\ out.stmts = branch

\* C10: for an if whose condition folds to the boolean c, simp_if gives the
\* then-branch if c is true and the else-branch if c is false: the statement
\* if the branch has one, a block of the statements in order if it has
\* several, null if c is false and there is no else part; an if whose
\* condition does not fold is returned as it is.
C10_If ==
    (simp.done /\ simp.t.kind = "T_IF" /\ ~crashed) =>
        LET t == simp.t
        IN /\ FoldsTo(t.value, TRUE) => IsBranch(simp.out, t, t.stmts)
           /\ FoldsTo(t.value, FALSE) =>
                 /\ IsBranch(simp.out, t, t.else_stmts)
                 /\ Len(t.else_stmts) = 0 => simp.out = NoTree
           /\ (~FoldsTo(t.value, TRUE) /\ ~FoldsTo(t.value, FALSE)) => simp.out = t

\* C10 witness: a false condition and an else part of several statements
\* gave a block of them.
C10_Witness ==
    /\ simp.done /\ ~crashed
    /\ simp.t.kind = "T_IF"
    /\ FoldsTo(simp.t.value, FALSE)
    /\ Len(simp.t.else_stmts) >= 2 /\ Len(simp.t.stmts) = 1
    /\ simp.t.else_stmts[1] # simp.t.else_stmts[2]
    /\ simp.out.kind = "T_BLOCK"
    /\ simp.out.stmts = simp.t.else_stmts

\* Arm a of a case statement matches the value v: its choice is the name v,
\* or a range that holds v.
ArmMatches(a, v) ==
    \/ a.subkind = "A_NAMED" /\ folded_int(a.name).ok /\ folded_int(a.name).v = v
    \/ a.subkind = "A_RANGE" /\ folded_int(a.left).ok /\ folded_int(a.right).ok
       /\ folded_int(a.left).v <= v /\ v <= folded_int(a.right).v

\* C11: for a case statement whose scrutinee folds to v, simp_case returns
\* the value (null if there is none) of the arm that matches v: an arm whose
\* choice equals or holds v, and an others arm only if no other arm matches,
\* whatever the order and kind of the arms; a case statement whose
\* scrutinee does not fold is returned as it is.
C11_CaseArm ==
    (simp.done /\ simp.t.kind = "T_CASE" /\ ~crashed) =>
        LET t == simp.t
            c == folded_int(t.value)
            M == {i \in 1..Len(t.assocs) : ArmMatches(t.assocs[i], c.v)}
            O == {i \in 1..Len(t.assocs) : t.assocs[i].subkind = "A_OTHERS"}
        IN IF ~c.ok THEN simp.out = t
           ELSE IF M # {} THEN \E i \in M : simp.out = t.assocs[i].value
           ELSE O # {} => \E i \in O : simp.out = t.assocs[i].value

\* The statements simplification makes a process of.
Desugared == {"T_CASSIGN", "T_CPCALL", "T_SELECT", "T_CASSERT"}

\* C12: simp_cassign, simp_cpcall, simp_select and simp_cassert (of an
\* assertion that is not constant true) each return a process whose last
\* statement is a wait carrying the static_wait flag, the only wait among
\* its statements, after at least one desugared statement.
C12_ProcessWithStaticWait ==
    (simp.done /\ ~crashed /\ simp.t.kind \in Desugared
     /\ ~(simp.t.kind = "T_CASSERT" /\ FoldsTo(simp.t.value, TRUE))) =>
        LET out == simp.out
        IN /\ out.kind = "T_PROCESS"
           /\ Len(out.stmts) >= 2
           /\ out.stmts[Len(out.stmts)].kind = "T_WAIT"
           /\ "TREE_F_STATIC_WAIT" \in out.stmts[Len(out.stmts)].flags
           /\ \A i \in 1..(Len(out.stmts) - 1) : out.stmts[i].kind # "T_WAIT"

\* The signals an expression or statement reads: in conditions, assigned
\* values and waveforms, call arguments of mode in or inout, prefixes, and
\* the index and slice expressions of any array object, also of a target.
RECURSIVE SignalsRead(_)
RECURSIVE TargetReads(_)
SignalsRead(e) ==
    LET Each(es) == UNION {SignalsRead(es[i]) : i \in 1..Len(es)}
    IN CASE e.kind = "T_REF" -> IF class_of(e.ref) = "C_SIGNAL" THEN {e.ref} ELSE {}
         [] e.kind = "T_ARRAY_REF" ->
              SignalsRead(e.value) \cup Each([i \in 1..Len(e.params) |-> e.params[i].value])
         [] e.kind = "T_ARRAY_SLICE" ->
              SignalsRead(e.value) \cup SignalsRead(e.ranges[1].left)
              \cup SignalsRead(e.ranges[1].right)
         [] e.kind = "T_WAVEFORM" -> SignalsRead(e.value)
         [] e.kind \in {"T_FCALL", "T_PCALL"} ->
              UNION {SignalsRead(e.params[i].value) :
                       i \in {j \in 1..Len(e.params) :
                                ParamMode(e.ref, j) \in {"PORT_IN", "PORT_INOUT"}}}
         [] e.kind = "T_ATTR_REF" -> SignalsRead(e.name)
         [] e.kind = "T_IF" ->
              SignalsRead(e.value) \cup Each(e.stmts) \cup Each(e.else_stmts)
         [] e.kind = "T_VAR_ASSIGN" -> TargetReads(e.target) \cup SignalsRead(e.value)
         [] e.kind = "T_SIGNAL_ASSIGN" -> TargetReads(e.target) \cup Each(e.waveforms)
         [] OTHER -> {}

TargetReads(e) ==
    CASE e.kind = "T_ARRAY_REF" ->
           TargetReads(e.value)
           \cup UNION {SignalsRead(e.params[i].value) : i \in 1..Len(e.params)}
      [] e.kind = "T_ARRAY_SLICE" ->
           TargetReads(e.value) \cup SignalsRead(e.ranges[1].left)
           \cup SignalsRead(e.ranges[1].right)
      [] OTHER -> {}

\* The declaration a trigger denotes: that of the name, or of the prefix of
\* an indexed or sliced name.
RECURSIVE Denotes(_)
Denotes(tr) ==
    IF tr.kind \in {"T_ARRAY_REF", "T_ARRAY_SLICE"} THEN Denotes(tr.value) ELSE tr.ref

\* A process sensitive to all: simp_process builds its wait with
\* simp_build_wait(w, t, true).
AllProcess(t) ==
    /\ t.kind = "T_PROCESS"
    /\ Len(t.triggers) = 1 /\ t.triggers[1].kind = "T_ALL"
    /\ Len(t.stmts) > 0

\* C13: after simp_build_wait(wait, body, all) on a process body, every
\* signal read in the body (in conditions, assigned values and waveforms,
\* call arguments of mode in or inout, index and slice expressions of any
\* array object, signal or not) has a trigger in the wait.
C13_EveryReadSignalTriggers ==
    (simp.done /\ ~crashed /\ AllProcess(simp.t)) =>
        LET w == simp.out.stmts[Len(simp.out.stmts)]
        IN \A d \in UNION {SignalsRead(simp.t.stmts[i]) : i \in 1..Len(simp.t.stmts)} :
              \E i \in 1..Len(w.triggers) : Denotes(w.triggers[i]) = d

\* The wait simp_build_wait was called on, if the simplified node has one.
BuiltWait ==
    IF simp.t.kind \in Desugared \/ AllProcess(simp.t)
    THEN IF simp.out.kind = "T_PROCESS" THEN simp.out.stmts[Len(simp.out.stmts)]
         ELSE Wait("none", {}, <<>>)
    ELSE IF simp.t.kind = "T_WAIT" /\ Len(simp.t.triggers) = 0 THEN simp.out
    ELSE Wait("none", {}, <<>>)

\* C14: after any sequence of simp_build_wait calls on one wait (with the
\* guard that simp_guard adds), no two triggers of the wait denote the same
\* signal declaration.
C14_NoDuplicateTriggers ==
    (simp.done /\ ~crashed) =>
        NoDuplicates([i \in 1..Len(BuiltWait.triggers) |-> Denotes(BuiltWait.triggers[i])])


\* The number of elements of s that are x.
Count(s, x) == Cardinality({i \in 1..Len(s) : s[i] = x})

RECURSIVE BlocksIn(_)
BlocksIn(ss) ==
    UNION { IF ss[i].kind = "T_BLOCK" THEN {ss[i]} \cup BlocksIn(ss[i].stmts) ELSE {} :
              i \in 1..Len(ss) }

\* What the generic map of block b binds generic i to: the positional
\* element at i, else the named element for it, else its default, else
\* nothing.
BoundValue(b, i) ==
    LET g == b.generics[i]
        named == {j \in 1..Len(b.genmaps) : /\ b.genmaps[j].subkind = "P_NAMED"
                                            /\ b.genmaps[j].name.ident = g.ident}
    IN IF i <= Len(b.genmaps) /\ b.genmaps[i].subkind = "P_POS" THEN b.genmaps[i].value
       ELSE IF named # {}
       THEN b.genmaps[CHOOSE j \in named : \A k \in named : j <= k].value
       ELSE g.value

\* The bindings in force in block b, given those of the enclosing blocks.
RECURSIVE Bind(_, _, _)
Bind(env, b, i) ==
    IF Len(b.genmaps) = 0 \/ i > Len(b.generics) THEN env
    ELSE Bind(IF BoundValue(b, i) = NoTree THEN env
              ELSE hash_put(env, b.generics[i], BoundValue(b, i)), b, i + 1)

\* A name with the bound value in the place of a reference to a bound
\* generic.
Bound(e, env) ==
    IF e.kind = "T_REF" /\ "TREE_F_FORMAL_NAME" \notin e.flags
       /\ hash_get(env, e.ref) # NoTree
    THEN hash_get(env, e.ref) ELSE e

\* The statements of a block body with every reference to a bound generic
\* replaced; of a block the statements are kept only.
RECURSIVE Replaced(_, _)
Replaced(ss, env) ==
    [i \in 1..Len(ss) |->
        IF ss[i].kind = "T_BLOCK"
        THEN [kind |-> "T_BLOCK", stmts |-> Replaced(ss[i].stmts, Bind(env, ss[i], 1))]
        ELSE [ss[i] EXCEPT !.stmts =
                 [j \in 1..Len(@) |-> [@[j] EXCEPT !.value = Bound(@, env)]]]]

RECURSIVE Bodies(_)
Bodies(ss) ==
    [i \in 1..Len(ss) |->
        IF ss[i].kind = "T_BLOCK"
        THEN [kind |-> "T_BLOCK", stmts |-> Bodies(ss[i].stmts)]
        ELSE ss[i]]

\* The statements of the unit that are blocks.
OnlyBlocks(ss) == SelectSeq(ss, LAMBDA x : x.kind = "T_BLOCK")

\* C16: on entering a block that has a generic map, each generic of the
\* block is bound to the positional element at its index, else to the named
\* element with its identifier, else to its default, else to nothing; the
\* bindings of an enclosing block are still there, unchanged, after a nested
\* block; and every reference to a bound generic in the body of the block is
\* replaced by the bound value.
C16_GenericsBoundAndReplaced ==
    (simp.done /\ simp.created = <<>> /\ BlocksIn(simp.t.stmts) # {}) =>
        /\ ~crashed
        /\ \A b \in BlocksIn(simp.t.stmts) :
              Len(b.genmaps) > 0 =>
                 \A i \in 1..Len(b.generics) :
                    hash_get(simp.generics, b.generics[i]) = BoundValue(b, i)
        /\ Bodies(OnlyBlocks(simp.out.stmts)) = Replaced(OnlyBlocks(simp.t.stmts), <<>>)


\* C17: locations whose files are registered before the first loc_write,
\* written through one write context and read back in the same order through
\* one read context, are equal field by field, and each file_ref read is
\* that of a registry entry with the name of the file the location written
\* referred to; the invalid file_ref is read back invalid.
C17_LocRoundTrip ==
    \A i \in 1..Len(diag.readback) :
        LET w == diag.written[i]
            r == diag.readback[i]
        IN (\A j \in 1..i : diag.written[j].indexed) =>
              /\ r.first_line = w.loc.first_line
              /\ r.first_column = w.loc.first_column
              /\ r.line_delta = w.loc.line_delta
              /\ r.column_delta = w.loc.column_delta
              /\ IF w.name = NoName THEN r.file_ref = FILE_INVALID
                 ELSE /\ r.file_ref < Len(diag.loc_files)
                      /\ diag.loc_files[r.file_ref + 1].name_str = w.name

\* Two locations in two files have been read back, in a process whose
\* registry gives the first file another file_ref.
C17_Witness ==
    /\ Len(diag.readback) = 2
    /\ \A j \in 1..2 : diag.written[j].indexed /\ diag.written[j].name # NoName
    /\ diag.written[1].name # diag.written[2].name
    /\ diag.readback[1].file_ref # diag.written[1].loc.file_ref
    /\ diag.written[1].loc.first_column = 4095

\* The canonical form of a name: no '/' follows a '/'.
Canonical(name) ==
    SelectSeq([i \in 1..Len(name) |-> <<i, name[i]>>],
              LAMBDA c : ~(c[2] = "/" /\ c[1] < Len(name) /\ name[c[1] + 1] = "/"))

CanonicalName(name) == [i \in 1..Len(Canonical(name)) |-> Canonical(name)[i][2]]

\* C18: the file registry holds no two entries with the same canonical
\* name; loc_file_ref of a name whose canonical form is registered already,
\* given in canonical form or not, returns the file_ref of that entry and
\* adds none.
C18_RegistryDeduplicates ==
    /\ \A i, j \in 1..Len(diag.loc_files) :
          CanonicalName(diag.loc_files[i].name_str)
             = CanonicalName(diag.loc_files[j].name_str) => i = j
    /\ diag.arg # NoName =>
          /\ diag.res < Len(diag.loc_files)
          /\ diag.res = first_named(diag.loc_files, CanonicalName(diag.arg)) - 1


\* C19: diag_femit adds exactly one to the error counter iff the level of
\* the diagnostic is error or fatal or unit-test mode is on, and leaves it
\* as it is otherwise; fatal is raised exactly when the counter so
\* incremented equals error_limit; so the counter is the number of such
\* diagnostics emitted since it was reset, and is never above error_limit if
\* error_limit is 1 at least.
C19_ErrorCounter ==
    /\ diag.n_errors = diag.counted
    /\ diag.emit.d # 0 =>
          /\ diag.n_errors = diag.emit.n_errors + (IF diag.emit.counts THEN 1 ELSE 0)
          /\ crashed <=> (diag.emit.counts /\ diag.n_errors = diag.error_limit)
    /\ diag.error_limit >= 1 => diag.n_errors <= diag.error_limit

\* A warning was emitted and not counted, then an error reached the limit
\* of 1 and raised fatal.
C19_Witness ==
    /\ crashed /\ diag.error_limit = 1 /\ diag.n_errors = 1
    /\ Len(diag.diags) = 2 /\ ~diag.unit_test
    /\ \E d \in 1..2 : diag.diags[d].freed /\ diag.diags[d].level = "DIAG_WARN"

\* C20 as the code has it: with a consumer installed diag_femit calls the
\* consumer and writes nothing to the stream, and then does what it does
\* without one: the error counter is incremented for a diagnostic that
\* counts, fatal is raised at the limit, and otherwise the diagnostic and
\* its texts are freed.
C20_ConsumerThenCountAndFree ==
    (diag.emit.d # 0 /\ diag.emit.consumer) =>
        /\ diag.stream = diag.emit.stream
        /\ diag.consumed # <<>> /\ diag.consumed[Len(diag.consumed)] = diag.emit.d
        /\ diag.n_errors = diag.emit.n_errors + (IF diag.emit.counts THEN 1 ELSE 0)
        /\ crashed <=> (diag.emit.counts /\ diag.n_errors = diag.error_limit)
        /\ diag.diags[diag.emit.d].freed <=> ~crashed

\* C20: with a consumer installed diag_femit calls the consumer and
\* returns: nothing is written to the stream, the error counter is as it
\* was, and the diagnostic and its texts are not freed.
C20_ConsumerOnly ==
    (diag.emit.d # 0 /\ diag.emit.consumer) =>
        /\ diag.stream = diag.emit.stream
        /\ diag.n_errors = diag.emit.n_errors
        /\ ~diag.diags[diag.emit.d].freed

\* An error was given to the consumer, counted, and freed.
C20_Witness ==
    /\ diag.emit.d # 0 /\ diag.emit.consumer /\ ~crashed
    /\ diag.diags[diag.emit.d].level = "DIAG_ERROR"
    /\ diag.diags[diag.emit.d].freed
    /\ diag.n_errors = diag.emit.n_errors + 1
    /\ diag.consumed # <<>>

\* ---- C21

\* C21: simp_ref replaces a reference to a generic that has an entry in the
\* active map by the mapped value, except a formal name whose mapped value
\* is no reference; a formal name whose mapped value is a reference is
\* replaced.
C21_MappedGenericReplaced ==
    (simp.done /\ simp.t # NoTree /\ simp.t.kind = "T_REF"
     /\ hash_get(simp.generics, simp.t.ref) # NoTree)
        => LET map == hash_get(simp.generics, simp.t.ref)
               kept == "TREE_F_FORMAL_NAME" \in simp.t.flags /\ map.kind # "T_REF"
           IN /\ ~crashed
              /\ simp.out = IF kept THEN simp.t ELSE map

\* What the code does: a formal name is never replaced, a plain name is
\* replaced by a mapped value of the kinds simp_ref lists.
C21_FormalNamesKept ==
    (simp.done /\ ~crashed /\ simp.t # NoTree /\ simp.t.kind = "T_REF"
     /\ hash_get(simp.generics, simp.t.ref) # NoTree)
        => simp.out = IF "TREE_F_FORMAL_NAME" \in simp.t.flags THEN simp.t
                      ELSE hash_get(simp.generics, simp.t.ref)

C21_FormalNameMappedToName ==
    /\ simp.done /\ simp.t # NoTree /\ simp.t.kind = "T_REF"
    /\ "TREE_F_FORMAL_NAME" \in simp.t.flags
    /\ hash_get(simp.generics, simp.t.ref) # NoTree
    /\ hash_get(simp.generics, simp.t.ref).kind = "T_REF"
    /\ simp.out = simp.t

\* ---- C22

\* simp_fold was called on the call simp_tree was given.
C22_Folding ==
    /\ simp.done /\ ~crashed /\ simp.t # NoTree /\ simp.t.kind = "T_FCALL"
    /\ simp_call_args(simp.t).t.flags \cap simp.ctx.eval_mask # {}
    /\ type_is_scalar(simp.t.type)

\* Some call among t and its arguments has an argument that is a call of
\* scalar type which fold_possible accepts.
RECURSIVE HasFoldableCallArg(_, _)
HasFoldableCallArg(t, flags) ==
    /\ t.kind = "T_FCALL"
    /\ \E i \in 1..Len(t.params) :
          LET p == t.params[i].value
          IN \/ (p.kind = "T_FCALL" /\ type_is_scalar(p.type) /\ fold_possible(p, flags))
             \/ HasFoldableCallArg(p, flags)

\* C22: whenever fold_possible returns false while EVAL_WARN is set, a warn
\* diagnostic has been emitted during the call; when EVAL_WARN is clear none
\* is emitted; in both cases simp_fold returns the node it was given.
C22_RefusalWarns ==
    C22_Folding =>
        LET n == simp_call_args(simp.t).t
        IN /\ ("EVAL_WARN" \in simp.flags /\ ~fold_possible(n, simp.flags))
                 => (simp.warned # <<>> /\ \A i \in 1..Len(simp.warned) :
                                              simp.warned[i].level = "warn")
           /\ "EVAL_WARN" \notin simp.flags => simp.warned = <<>>
           /\ ~fold_possible(n, simp.flags) => simp.out = n

\* C22 amended: as C22, but a refusal that comes from an argument which is
\* itself a foldable call of scalar type emits nothing.
C22_RefusalWarnsUnlessFoldableArg ==
    C22_Folding =>
        LET n == simp_call_args(simp.t).t
        IN /\ ("EVAL_WARN" \in simp.flags /\ ~fold_possible(n, simp.flags)
               /\ ~HasFoldableCallArg(n, simp.flags))
                 => (simp.warned # <<>> /\ \A i \in 1..Len(simp.warned) :
                                              simp.warned[i].level = "warn")
           /\ ("EVAL_WARN" \in simp.flags /\ ~fold_possible(n, simp.flags)
               /\ HasFoldableCallArg(n, simp.flags))
                 => simp.warned = <<>>
           /\ "EVAL_WARN" \notin simp.flags => simp.warned = <<>>
           /\ ~fold_possible(n, simp.flags) => simp.out = n

\* C22 witness: with EVAL_WARN set the global pass refused a call with a
\* named argument for an open argument and warned once.
C22_Witness ==
    /\ C22_Folding /\ "EVAL_WARN" \in simp.flags /\ simp.ctx = GlobalCtx
    /\ ~fold_possible(simp_call_args(simp.t).t, simp.flags)
    /\ simp.t.ref.subkind = "S_ADD" /\ "TREE_F_GLOBALLY_STATIC" \in simp.t.flags
    /\ Len(simp.warned) = 1 /\ simp.warned[1].why = "aggregate"
    /\ simp.out = simp_call_args(simp.t).t

\* ---- C23

\* C23: every location written with loc_write through a write context is
\* read back by loc_read without a fatal error, for any interleaving of
\* loc_file_ref and loc_write on that context: the file table emitted on
\* the first write covers the file_ref of every location written later.
C23_WrittenLocsReadable ==
    /\ \A i \in 1..Len(diag.written) : diag.written[i].indexed
    /\ ~crashed

\* What the code gives: loc_read ends in fatal only at a location whose
\* file was registered after the first loc_write of its context.
C23_FatalAtUnindexed ==
    crashed => /\ Len(diag.readback) < Len(diag.written)
               /\ ~diag.written[Len(diag.readback) + 1].indexed
               /\ diag.rd.open

C23_RegisteredAfterFirstWrite ==
    /\ crashed /\ Len(diag.written) = 2 /\ Len(diag.readback) = 1
    /\ diag.written[1].indexed /\ ~diag.written[2].indexed

\* ---- C24

\* C24: the simplification pass drops no flag from a statement it rebuilds:
\* the process simp_process returns for a process with a sensitivity list
\* carries every flag of the input process, postponed in particular, as does
\* the process simp_cassert builds from a postponed concurrent assertion.
C24_FlagsKept ==
    (simp.done /\ ~crashed /\ simp.t # NoTree /\ simp.out # NoTree) =>
        /\ (simp.t.kind = "T_PROCESS" /\ Len(simp.t.triggers) > 0)
              => simp.t.flags \subseteq simp.out.flags
        /\ simp.t.kind = "T_CASSERT"
              => simp.t.flags \cap {"TREE_F_POSTPONED"} \subseteq simp.out.flags

\* What the code gives: the process simp_cassert builds is postponed iff the
\* assertion is; the process simp_process builds has no flag.
C24_CassertKeepsProcessDrops ==
    (simp.done /\ ~crashed /\ simp.t # NoTree /\ simp.out # NoTree) =>
        /\ (simp.t.kind = "T_PROCESS" /\ Len(simp.t.triggers) > 0)
              => simp.out.flags = {}
        /\ simp.t.kind = "T_CASSERT"
              => simp.out.flags = simp.t.flags \cap {"TREE_F_POSTPONED"}

C24_PostponedProcessRebuilt ==
    /\ simp.done /\ ~crashed /\ simp.t # NoTree /\ simp.out # NoTree
    /\ simp.t.kind = "T_PROCESS" /\ Len(simp.t.triggers) = 2
    /\ "TREE_F_POSTPONED" \in simp.t.flags
    /\ simp.out.kind = "T_PROCESS" /\ "TREE_F_POSTPONED" \notin simp.out.flags

\* ---- C25

\* The procedures a statement sequence calls, and those called from them.
CalledBy(stmts) == { stmts[i].ref : i \in { j \in 1..Len(stmts) : stmts[j].kind = "T_PCALL" } }

RECURSIVE CalledWithin(_, _, _)
CalledWithin(procs, names, n) ==
    IF n = 0 THEN names
    ELSE CalledWithin(procs, names \cup UNION { CalledBy(procs[m].stmts) : m \in names },
                      n - 1)

\* A procedure the process calls, directly or not, calls itself, directly
\* or not.
CallsRecursive ==
    \E m \in CalledWithin(simp.procs, CalledBy(simp.t.stmts), Cardinality(ProcNames)) :
       m \in CalledWithin(simp.procs, CalledBy(simp.procs[m].stmts), Cardinality(ProcNames))

\* C25: simp_build_wait terminates on every finite input, in all-sensitised
\* mode too when the body calls a procedure whose body calls itself or a
\* mutually recursive procedure: simp_process comes to its end.
C25_BuildWaitTerminates == <>(simp.done)

\* What the code gives: simp_build_wait returns iff no procedure the
\* process calls is recursive; with one that is, the calls nest until the
\* stack is exhausted.
C25_TerminatesWithoutRecursion == (~CallsRecursive) => <>(simp.done)

C25_NeverEndsWithRecursion == CallsRecursive => ([](~simp.done) /\ <>crashed)

\* ---- C26

\* simp_tree was given a block, an instance or a binding.
C26_Mapped == simp.done /\ simp.t # NoTree
              /\ simp.t.kind \in {"T_BLOCK", "T_INSTANCE", "T_BINDING"}

\* The unit whose generics the map of t binds.
C26_Unit(t) ==
    IF t.kind = "T_BLOCK" THEN t
    ELSE IF t.ref.kind \in {"T_CONFIGURATION", "T_ARCH"} THEN t.ref.primary
    ELSE t.ref

\* The value the map of t supplies for generic i of gs, by position or by
\* name, or NoTree.
C26_Supplied(t, gs, i) ==
    LET named == { j \in 1..Len(t.genmaps) :
                     /\ t.genmaps[j].subkind = "P_NAMED"
                     /\ t.genmaps[j].name.kind = "T_REF"
                     /\ t.genmaps[j].name.ident = gs[i].ident }
    IN IF i <= Len(t.genmaps) /\ t.genmaps[i].subkind = "P_POS" THEN t.genmaps[i].value
       ELSE IF named # {} THEN t.genmaps[CHOOSE j \in named : TRUE].value
       ELSE NoTree

\* out has one positional element for each generic, at its index, with the
\* value supplied, else the default, else for a binding an open; its other
\* slots are those of t; a complete positional map leaves t as it is.
C26_Positional(t, out) ==
    LET gs == C26_Unit(t).generics
    IN /\ out # NoTree
       /\ Len(out.genmaps) = Len(gs)
       /\ \A i \in 1..Len(gs) :
             LET m == out.genmaps[i]
                 v == C26_Supplied(t, gs, i)
             IN /\ m.subkind = "P_POS" /\ m.pos = i - 1
                /\ m.value = IF v # NoTree THEN v
                             ELSE IF HasValue(gs[i]) THEN gs[i].value
                             ELSE [kind |-> "T_OPEN", loc |-> t.loc, type |-> gs[i].type]
                /\ (v = NoTree /\ ~HasValue(gs[i])) => t.kind = "T_BINDING"
       /\ DOMAIN out = DOMAIN t
       /\ \A f \in DOMAIN t \ {"genmaps"} : out[f] = t[f]
       /\ (Len(t.genmaps) = Len(gs)
           /\ \A j \in 1..Len(t.genmaps) : t.genmaps[j].subkind = "P_POS") => out = t

\* A formal of the map names an element of a generic.
C26_ElementFormal(t) ==
    \E j \in 1..Len(t.genmaps) :
       t.genmaps[j].subkind = "P_NAMED" /\ t.genmaps[j].name.kind # "T_REF"

\* C26: simp_generic_map returns a node with exactly one generic-map element
\* per generic of the unit, all positional, the element for generic i at
\* index i with pos = i, its value the positional or named value supplied,
\* else the default, else for a binding an open; every other slot is as in
\* the input, and a complete positional map is returned unchanged.
C26_GenericMapPositional ==
    C26_Mapped => (~crashed /\ C26_Positional(simp.t, simp.out))

\* C26 amended: as C26 for a map whose named formals are simple names; a
\* formal of another form ends the pass in a fatal error.
C26_GenericMapPositionalForSimpleNames ==
    C26_Mapped =>
        /\ crashed <=> C26_ElementFormal(simp.t)
        /\ ~crashed => C26_Positional(simp.t, simp.out)

\* C26 witness: an instance of an architecture whose entity has the generics
\* N and K, the map naming K before N: the elements come out in the order of
\* the generics.
C26_Witness ==
    /\ C26_Mapped /\ ~crashed /\ simp.t.kind = "T_INSTANCE"
    /\ simp.t.ref.kind = "T_ARCH"
    /\ Len(simp.t.genmaps) = 2 /\ simp.t.genmaps[1].subkind = "P_NAMED"
    /\ simp.t.genmaps[1].name.ident = "K"
    /\ simp.out.genmaps = <<PosParam(0, simp.t.genmaps[2].value),
                            PosParam(1, simp.t.genmaps[1].value)>>

\* ---- C27

\* Every back-reference of the stream has an index below the number of
\* nodes whose kind stands before it: tree_read places a node in its store
\* when it has read the kind.
BackrefsResolve(toks) ==
    \A p \in 1..(Len(toks) - 1) :
       (toks[p] = TokS(BACKREF_MARKER) /\ toks[p + 1].tag = "u")
          => toks[p + 1].n < Cardinality({q \in 1..(p - 1) :
                                            toks[q].tag = "s" /\ toks[q].s # ""})

\* C27: tree_write, tree_copy and the deep traversal of tree_gc terminate on
\* every finite node graph, graphs with cycles through ref included, and
\* during tree_read of a stream produced by tree_write every back-reference
\* index refers to a node already in the read store.
C27_TraversalsTerminate ==
    /\ last.op \in {"tree_write", "tree_copy", "tree_gc"} => ~crashed
    /\ BackrefsResolve(file.toks)

\* What the code gives: a traversal fails to end only once the generation
\* counter has passed the 16 bits of the generation field of a node, and
\* the back-references of a stream resolve.
C27_TerminateBelowWrap ==
    /\ (last.op \in {"tree_write", "tree_copy", "tree_gc"} /\ crashed)
          => next_generation > GEN_MOD
    /\ BackrefsResolve(file.toks)

C27_CycleNeverEnds ==
    /\ crashed /\ last.op = "tree_copy"
    /\ \E t \in Reach(trees, types, {last.root}, TRUE) :
          trees[t].kind = "T_FCALL" /\ last.root \in Reach(trees, types, {trees[t].ref}, TRUE)

\* ---- C28: the order of the hints

\* The entries of the stream written in the full style whose hints
\* diag_emit_hints sorted.
SortedOutputs ==
    {i \in 1..Len(diag.stream) :
        diag.stream[i].style = "MESSAGE_FULL" /\ diag.stream[i].sorted}

SameLine(a, b) ==
    a.loc.file_ref = b.loc.file_ref /\ a.loc.first_line = b.loc.first_line

\* C28 as stated: after diag_emit_hints sorted the hints, of two hints on the
\* same file and line the one that was added earlier comes first, the hint of
\* diag_new before every hint added later on its line.
C28_EarlierHintFirst ==
    \A i \in SortedOutputs :
        LET h == diag.stream[i].hints
        IN \A j, k \in 1..Len(h) :
              j < k /\ SameLine(h[j], h[k]) => h[j].added < h[k].added

\* C28 as the code has it: the hints are in the order of their files, then of
\* their lines, and of two hints on the same file and line the one that was
\* added later comes first, the hint of diag_new after every hint added later
\* on its line.
C28_LaterHintFirst ==
    \A i \in SortedOutputs :
        LET h == diag.stream[i].hints
        IN \A j, k \in 1..Len(h) :
              j < k =>
                 /\ h[j].loc.file_ref <= h[k].loc.file_ref
                 /\ h[j].loc.file_ref = h[k].loc.file_ref
                       => h[j].loc.first_line <= h[k].loc.first_line
                 /\ SameLine(h[j], h[k]) => h[j].added > h[k].added

\* A diagnostic was written whose hint of diag_new follows two hints added
\* later, one of them on its line.
C28_PrimaryAfterLaterHint ==
    \E i \in SortedOutputs :
        LET h == diag.stream[i].hints
        IN /\ Len(h) = 3
           /\ \E j, k \in 1..Len(h) :
                 /\ j < k /\ SameLine(h[j], h[k])
                 /\ h[k].added = 1 /\ h[k].priority = 0 /\ h[k].text = NoName
                 /\ h[j].priority < 0

\* ---- C29: the trace that repeats the location of the diagnostic

\* The entries of the stream written in the full style for a diagnostic
\* that has a trace.
TracedOutputs ==
    {i \in 1..Len(diag.stream) :
        /\ diag.stream[i].style = "MESSAGE_FULL"
        /\ diag.diags[diag.stream[i].d].traced # <<>>}

\* The trace has one entry, on the file and the line the diagnostic was made
\* with.
RepeatsPrimary(dg) ==
    /\ Len(dg.traced) = 1 /\ ~loc_invalid_p(dg.loc)
    /\ dg.traced[1].loc.file_ref = dg.loc.file_ref
    /\ dg.traced[1].loc.first_line = dg.loc.first_line

\* C29: diag_emit_trace suppresses the trace exactly when it has a single
\* entry on the file and the line of the primary hint; a single entry of
\* another file or another line, and a trace of two or more entries, is
\* rendered.
C29_TraceSuppressedIffRepeats ==
    \A i \in TracedOutputs :
        LET dg == diag.diags[diag.stream[i].d]
        IN IF RepeatsPrimary(dg) THEN diag.stream[i].trace = <<>>
           ELSE diag.stream[i].trace = dg.traced

\* What the code does: a trace of two or more entries, and the trace of a
\* diagnostic without hints, is rendered; a single entry is suppressed when
\* it has the file or the line of the hint that is first after the sort.
C29_SuppressedOnFileOrLine ==
    \A i \in TracedOutputs :
        LET dg == diag.diags[diag.stream[i].d]
            h == diag.stream[i].hints
        IN IF /\ Len(dg.traced) = 1 /\ h # <<>>
              /\ \/ dg.traced[1].loc.file_ref = h[1].loc.file_ref
                 \/ dg.traced[1].loc.first_line = h[1].loc.first_line
           THEN diag.stream[i].trace = <<>>
           ELSE diag.stream[i].trace = dg.traced

\* A single entry of the trace on another line of the file of the primary
\* hint was not rendered.
C29_OtherLineSuppressed ==
    \E i \in TracedOutputs :
        LET dg == diag.diags[diag.stream[i].d]
        IN /\ Len(dg.traced) = 1 /\ ~loc_invalid_p(dg.loc)
           /\ dg.traced[1].loc.file_ref = dg.loc.file_ref
           /\ dg.traced[1].loc.first_line # dg.loc.first_line
           /\ diag.stream[i].trace = <<>>

\* ---- C30: the line of the compact style

\* The last diag_femit ran in the compact style without a consumer and
\* returned.
CompactEmit ==
    /\ diag.emit.d # 0 /\ ~diag.emit.consumer /\ diag.style = "MESSAGE_COMPACT"

\* C30: in the compact style with no consumer installed diag_femit writes
\* for every diagnostic one line with the level word and the message, after
\* file, line and column if the diagnostic has a valid primary location; a
\* diagnostic made without a location has its level and message written.
C30_CompactLineAlways ==
    CompactEmit =>
        LET dg == diag.diags[diag.emit.d]
        IN /\ Len(diag.stream) = Len(diag.emit.stream) + 1
           /\ LET line == diag.stream[Len(diag.stream)]
              IN /\ line.level = level_word(dg.level) /\ line.msg = diag.emit.d
                 /\ line.prefix # <<>> <=> ~loc_invalid_p(dg.loc)

\* What the code does: the line is written for a diagnostic that has a
\* hint, nothing for a diagnostic made without a location.
C30_CompactLineIfHint ==
    CompactEmit =>
        LET dg == diag.diags[diag.emit.d]
        IN IF loc_invalid_p(dg.loc) THEN diag.stream = diag.emit.stream
           ELSE /\ Len(diag.stream) = Len(diag.emit.stream) + 1
                /\ LET line == diag.stream[Len(diag.stream)]
                   IN /\ line.level = level_word(dg.level)
                      /\ line.msg = diag.emit.d
                      /\ line.prefix = <<dg.loc.file_ref, dg.loc.first_line,
                                         dg.loc.first_column + 1>>

\* A diagnostic made without a location was emitted in the compact style
\* and nothing was written.
C30_NothingWritten ==
    /\ CompactEmit /\ loc_invalid_p(diag.diags[diag.emit.d].loc)
    /\ diag.stream = diag.emit.stream
    /\ diag.diags[diag.emit.d].freed

====
